---- MODULE Spec2Model ----
(***************************************************************************)
(* A model of the OCR ingestion adapter (ImageOCRReader) of                *)
(* week03-homework/ocr_research/image_ocr_reader.py.                       *)
(*                                                                         *)
(* Python values are modelled as records with a type tag.  Confidences and *)
(* scores are fixed-point numbers: a score is an integer number of         *)
(* thousandths (900 is 0.9), a metadata confidence (rounded to four        *)
(* decimals by the code) an integer number of ten-thousandths (8500 is     *)
(* 0.85).  Texts are TLA+ strings, and the formatted document text is      *)
(* built character for character as the code builds it.                    *)
(***************************************************************************)
EXTENDS Integers, Sequences, FiniteSets, TLC

VARIABLES
    pc,          \* the position of the modelled call
    ocr_result,  \* the raw OCR result (load_data: result)
    file_path,   \* the file path of the result (load_data: the loop variable)
    extra_info,  \* the caller's extra metadata
    ret,         \* what _process_ocr_result produced (locals, result, exception)
    again,       \* what a second call with the same arguments produced
    file,        \* load_data: the argument `file`, one path or a list of paths
    files,       \* load_data: the list `files`
    file_idx,    \* load_data: the position of the loop in `files`, from 1
    documents,   \* load_data: the list `documents`
    ocr_calls,   \* the paths ocr_model.ocr was invoked with, in order
    exc,         \* the exception that left load_data, and where it was raised
    returned,    \* what the caller of load_data / load_data_from_dir received
    dir_path,    \* load_data_from_dir: the argument `dir_path`
    recursive,   \* load_data_from_dir: the argument `recursive`
    image_files, \* load_data_from_dir: the list `image_files`
    log,         \* what was printed (load_data_from_dir, the two main scripts)
    pipeline,    \* the script that runs: "chunking", "ocr", "" for none
    api_key,     \* the environment variable DASHSCOPE_API_KEY is set
    data_dir,    \* chunking: the state of the data folder
    present,     \* ocr: the test images that exist
    settings,    \* the process-wide Settings: llm, embed_model, text_splitter
    events,      \* the writes of Settings and the pipeline steps, in order
    cfg_idx,     \* chunking: the position in the configurations, from 1
    base_nodes,  \* chunking: evaluate_sentence_window_splitter's base_nodes
    nodes,       \* chunking: the list `nodes` of the running evaluation
    index,       \* the index of the running evaluation / of the demo
    response,    \* the response of the last query
    all_results, \* chunking: the list `all_results`
    img_idx,     \* ocr: the position in test_images, from 1
    all_documents, \* ocr: demo_basic_ocr's list `all_documents`
    llm_configured, \* ocr: what setup_llm returned
    query_idx    \* ocr: the position in queries[:1], from 1

vars == <<pc, ocr_result, file_path, extra_info, ret, again, file, files,
          file_idx, documents, ocr_calls, exc, returned, dir_path, recursive,
          image_files, log, pipeline, api_key, data_dir, present, settings,
          events, cfg_idx, base_nodes, nodes, index, response, all_results,
          img_idx, all_documents, llm_configured, query_idx>>

\* the variables of load_data
load_vars == <<file, files, file_idx, documents, ocr_calls, exc, returned>>

\* the variables of load_data_from_dir
dir_vars == <<dir_path, recursive, image_files, log>>

\* the variables of the two main scripts
pipe_vars == <<pipeline, api_key, data_dir, present, settings, events,
               cfg_idx, base_nodes, nodes, index, response, all_results,
               img_idx, all_documents, llm_configured, query_idx>>

\* the variables of the reader the main scripts leave alone
reader_vars == <<ocr_result, file_path, extra_info, ret, again, file, files,
                 file_idx, ocr_calls, returned, dir_path, recursive,
                 image_files>>

\* the same without the record of the engine calls and of what load_data
\* returned, which the demos of ocr_research write
reader_quiet_vars == <<ocr_result, file_path, extra_info, ret, again, file,
                       files, file_idx, dir_path, recursive, image_files>>

(***************************************************************************)
(* Bounds of the model.                                                    *)
(***************************************************************************)
\* the longest sequence (lines of a page, rec_texts, rec_scores, flat texts)
MaxLen == 3

\* the longest list of paths a caller gives to load_data
MaxFiles == 3

(***************************************************************************)
(* Python values.                                                          *)
(***************************************************************************)
\* a confidence as the engine reports it: a number (thousandths), or a value
\* float() rejects, such as the string 'abc'
NumConf(n) == [k |-> "num", n |-> n]
BadConf == [k |-> "bad", n |-> 0]

\* float(confidence) succeeds
CanFloat(c) == c.k = "num"

\* float(confidence), in thousandths
Float(c) == c.n

\* the literal 1.0 of the code, in thousandths
DefaultConfidence == 1000

\* bbox None
NoneBBox == "None"

\* one entry of a page of the nested shape: None, or a list of `len` fields
\* whose field 1 is a list/tuple (`pair_is_seq`) of `pair_len` fields
NoneLine == [t |-> "none", len |-> 0, box |-> NoneBBox, pair_is_seq |-> FALSE,
             pair_len |-> 0, text |-> "", conf |-> BadConf]
ListLine(len, box, pair_is_seq, pair_len, text, conf) ==
    [t |-> "list", len |-> len, box |-> box, pair_is_seq |-> pair_is_seq,
     pair_len |-> pair_len, text |-> text, conf |-> conf]

\* one top-level element of the raw result
NoneItem == [t |-> "none", s |-> "", keys |-> {}, rec_texts |-> <<>>,
             rec_scores |-> <<>>, dt_polys |-> <<>>, lines |-> <<>>]
StrItem(s) == [NoneItem EXCEPT !.t = "str", !.s = s]
OtherItem == [NoneItem EXCEPT !.t = "other"]
ListItem(lines) == [NoneItem EXCEPT !.t = "list", !.lines = lines]
MapItem(keys, rec_texts, rec_scores, dt_polys) ==
    [NoneItem EXCEPT !.t = "map", !.keys = keys, !.rec_texts = rec_texts,
                     !.rec_scores = rec_scores, !.dt_polys = dt_polys]

\* the raw result: None, a list of elements, or some other object
NoneResult == [t |-> "none", items |-> <<>>]
OtherResult == [t |-> "other", items |-> <<>>]
ListResult(items) == [t |-> "list", items |-> items]

(***************************************************************************)
(* Arithmetic and string helpers.                                          *)
(***************************************************************************)
Min2(a, b) == IF a <= b THEN a ELSE b

Abs(a) == IF a < 0 THEN -a ELSE a

\* a / d rounded to the nearest integer, ties to even, for a >= 0 and d > 0
RoundHalfEven(a, d) ==
    LET q == a \div d
        r == a % d
    IN  IF 2 * r < d THEN q
        ELSE IF 2 * r > d THEN q + 1
        ELSE IF q % 2 = 0 THEN q ELSE q + 1

\* a / d rounded as Python rounds (sign kept, ties to even), d > 0
RoundSigned(a, d) ==
    IF a < 0 THEN -RoundHalfEven(-a, d) ELSE RoundHalfEven(a, d)

RECURSIVE SumSeq(_)
SumSeq(s) == IF s = <<>> THEN 0 ELSE Head(s) + SumSeq(Tail(s))

RECURSIVE MinSeq(_)
MinSeq(s) == IF Len(s) = 1 THEN s[1] ELSE Min2(s[1], MinSeq(Tail(s)))

RECURSIVE MaxSeq(_)
MaxSeq(s) ==
    IF Len(s) = 1 THEN s[1]
    ELSE LET m == MaxSeq(Tail(s)) IN IF s[1] >= m THEN s[1] ELSE m

\* sep.join(parts)
RECURSIVE Join(_, _)
Join(parts, sep) ==
    IF parts = <<>> THEN ""
    ELSE IF Len(parts) = 1 THEN parts[1]
    ELSE parts[1] \o sep \o Join(Tail(parts), sep)

\* f"{conf:.2f}" of a confidence in thousandths.  The sign of a negative
\* value is kept even when it rounds to zero, as Python's format does.  Exact
\* for every value that is a multiple of 1/100 or of 1/8 (the ties of the
\* model's scores), where the binary float holds the decimal tie exactly.
Fmt2(conf) ==
    LET h == RoundHalfEven(Abs(conf), 10)
        frac == h % 100
    IN  (IF conf < 0 THEN "-" ELSE "") \o ToString(h \div 100) \o "."
        \o (IF frac < 10 THEN "0" ELSE "") \o ToString(frac)

(***************************************************************************)
(* Paths (pathlib.Path), as strings.                                       *)
(***************************************************************************)
Char(s, i) == SubSeq(s, i, i)

\* the last position <= i of character ch in s, 0 when there is none
RECURSIVE LastIndexOf(_, _, _)
LastIndexOf(s, ch, i) ==
    IF i = 0 THEN 0
    ELSE IF Char(s, i) = ch THEN i ELSE LastIndexOf(s, ch, i - 1)

\* Path.name: the final component
PathName(p) == SubSeq(p, LastIndexOf(p, "/", Len(p)) + 1, Len(p))

\* Path.suffix: the final component from its last dot on, when that dot is
\* neither its first nor its last character
PathSuffix(p) ==
    LET name == PathName(p)
        i == LastIndexOf(name, ".", Len(name))
    IN  IF 1 < i /\ i < Len(name) THEN SubSeq(name, i, Len(name)) ELSE ""

\* the working directory of the process
Cwd == "/work"

\* Path.absolute(): a relative path is joined to the working directory
PathAbsolute(p) == IF Len(p) > 0 /\ Char(p, 1) = "/" THEN p ELSE Cwd \o "/" \o p

\* str.lower() of one character
LowerChar(c) ==
    CASE c = "A" -> "a" [] c = "B" -> "b" [] c = "C" -> "c" [] c = "D" -> "d"
      [] c = "E" -> "e" [] c = "F" -> "f" [] c = "G" -> "g" [] c = "H" -> "h"
      [] c = "I" -> "i" [] c = "J" -> "j" [] c = "K" -> "k" [] c = "L" -> "l"
      [] c = "M" -> "m" [] c = "N" -> "n" [] c = "O" -> "o" [] c = "P" -> "p"
      [] c = "Q" -> "q" [] c = "R" -> "r" [] c = "S" -> "s" [] c = "T" -> "t"
      [] c = "U" -> "u" [] c = "V" -> "v" [] c = "W" -> "w" [] c = "X" -> "x"
      [] c = "Y" -> "y" [] c = "Z" -> "z" [] OTHER -> c

\* str.lower()
RECURSIVE Lower(_)
Lower(s) == IF s = "" THEN "" ELSE LowerChar(Char(s, 1)) \o Lower(Tail(s))

(***************************************************************************)
(* The reader (ImageOCRReader.__init__, with its default arguments).       *)
(***************************************************************************)
Reader == [lang |-> "ch", use_gpu |-> FALSE, ocr_version |-> "PP-OCRv4"]

(***************************************************************************)
(* _format_text_blocks                                                     *)
(***************************************************************************)
\* the title line between the two sections.  The code writes its title in
\* Chinese ("plain text content"); the module is ASCII, so the title is
\* written in English here.
SectionTitle == "=== plain text content ==="

\* (a variant whose title line is not ended by a line break)
SeparatorNoBreak == "\n\n" \o SectionTitle

\* what stands between the detailed section and the plain-text section
Separator == "\n\n" \o SectionTitle \o "\n"

\* (a variant that numbers the blocks from 0)
DetailedLineZeroBased(i, text, conf) ==
    "[Block " \o ToString(i - 1) \o "] (conf: " \o Fmt2(conf) \o "): " \o text

\* f"[Block {i}] (conf: {conf:.2f}): {text}"
DetailedLine(i, text, conf) ==
    "[Block " \o ToString(i) \o "] (conf: " \o Fmt2(conf) \o "): " \o text

\* the list detailed_lines: one line per pair of zip(text_blocks, confidences)
DetailedLines(text_blocks, confidences) ==
    [i \in 1..Min2(Len(text_blocks), Len(confidences)) |->
        DetailedLine(i, text_blocks[i], confidences[i])]

\* (a variant without the early return for an empty list)
FormatTextBlocksNoGuard(text_blocks, confidences) ==
    Join(DetailedLines(text_blocks, confidences), "\n") \o Separator
        \o Join(text_blocks, "\n")

\* _format_text_blocks(text_blocks, confidences)
FormatTextBlocks(text_blocks, confidences) ==
    IF text_blocks = <<>> THEN ""
    ELSE Join(DetailedLines(text_blocks, confidences), "\n") \o Separator
            \o Join(text_blocks, "\n")

(***************************************************************************)
(* _process_ocr_result                                                     *)
(***************************************************************************)
\* the locals of the call before its loops: the three lists, what was
\* printed, and the exception raised ("" while none is)
EmptyLocals ==
    [text_blocks |-> <<>>, confidences |-> <<>>, detailed_blocks |-> <<>>,
     printed |-> <<>>, exc |-> ""]

\* (a variant whose three lists outlive the call, as attributes of the reader
\* or as default arguments would: a call goes on from the lists of the call
\* before it)
StartLocalsKept(prev) ==
    [EmptyLocals EXCEPT !.text_blocks = prev.text_blocks,
                        !.confidences = prev.confidences,
                        !.detailed_blocks = prev.detailed_blocks]

\* the locals a call starts with, prev being the lists the call before it on
\* the same reader ended with: `text_blocks = []`, `confidences = []` and
\* `detailed_blocks = []` make new lists in every call
StartLocals(prev) == EmptyLocals

\* (a variant that appends no confidence)
AppendBlockNoConfidence(acc, text, confidence, bbox, idx) ==
    IF confidence.k = "num"
    THEN [acc EXCEPT
            !.text_blocks = Append(@, text),
            !.detailed_blocks = Append(@,
                [text |-> text, confidence |-> confidence.n,
                 bbox |-> bbox, block_index |-> idx])]
    ELSE [acc EXCEPT !.text_blocks = Append(@, text), !.exc = "ValueError"]

\* text_blocks.append(text); confidences.append(float(confidence));
\* detailed_blocks.append({...}).  float() raises ValueError after the text
\* was appended when the confidence is no number.
AppendBlock(acc, text, confidence, bbox, idx) ==
    IF CanFloat(confidence)
    THEN [acc EXCEPT
            !.text_blocks = Append(@, text),
            !.confidences = Append(@, Float(confidence)),
            !.detailed_blocks = Append(@,
                [text |-> text, confidence |-> Float(confidence),
                 bbox |-> bbox, block_index |-> idx])]
    ELSE [acc EXCEPT !.text_blocks = Append(@, text), !.exc = "ValueError"]

\* result_item.get(key, []) for the three keys of the batch shape
GetTexts(result_item) ==
    IF "rec_texts" \in result_item.keys THEN result_item.rec_texts ELSE <<>>

GetScores(result_item) ==
    IF "rec_scores" \in result_item.keys THEN result_item.rec_scores ELSE <<>>

GetPolys(result_item) ==
    IF "dt_polys" \in result_item.keys THEN result_item.dt_polys ELSE <<>>

\* (a variant whose missing confidence defaults to 0.0)
ScoreAtDefaultZero(rec_scores, idx) ==
    IF idx < Len(rec_scores) THEN rec_scores[idx + 1] ELSE NumConf(0)

\* rec_scores[idx] if idx < len(rec_scores) else 1.0   (idx counts from 0)
ScoreAt(rec_scores, idx) ==
    IF idx < Len(rec_scores) THEN rec_scores[idx + 1]
    ELSE NumConf(DefaultConfidence)

\* dt_polys[idx] if idx < len(dt_polys) else None
PolyAt(dt_polys, idx) ==
    IF idx < Len(dt_polys) THEN dt_polys[idx + 1] ELSE NoneBBox

\* the loop over enumerate(rec_texts), from index idx on; an exception ends it
RECURSIVE BatchLoop(_, _, _, _, _)
BatchLoop(rec_texts, rec_scores, dt_polys, idx, acc) ==
    IF idx >= Len(rec_texts) \/ acc.exc # "" THEN acc
    ELSE BatchLoop(rec_texts, rec_scores, dt_polys, idx + 1,
            AppendBlock(acc, rec_texts[idx + 1], ScoreAt(rec_scores, idx),
                        PolyAt(dt_polys, idx), idx))

\* the truth value of a top-level element: None, '', {} and [] are false
Truthy(item) ==
    CASE item.t = "none" -> FALSE
      [] item.t = "str" -> item.s # ""
      [] item.t = "map" -> item.keys # {}
      [] item.t = "list" -> item.lines # <<>>
      [] OTHER -> TRUE

\* one step of the loop over the flat shape: `if text:` keeps the element
FlatKeeps(item) == Truthy(item)

\* (a variant that reads the first element alone, as the other shapes do)
FlatLoopFirstOnly(items, idx, acc) ==
    IF FlatKeeps(items[1])
    THEN AppendBlock(acc, items[1].s, NumConf(DefaultConfidence), NoneBBox, 0)
    ELSE acc

\* the loop over enumerate(ocr_result) of the flat shape.  Every element of a
\* flat result of the model is a str or None.
RECURSIVE FlatLoop(_, _, _)
FlatLoop(items, idx, acc) ==
    IF idx >= Len(items) THEN acc
    ELSE FlatLoop(items, idx + 1,
            IF FlatKeeps(items[idx + 1])
            THEN AppendBlock(acc, items[idx + 1].s,
                             NumConf(DefaultConfidence), NoneBBox, idx)
            ELSE acc)

\* `line and len(line) >= 2`
LineHasTwoFields(line) == line.t = "list" /\ line.len > 0 /\ line.len >= 2

\* isinstance(line[1], (list, tuple)) and len(line[1]) >= 2
PairWellFormed(line) == line.pair_is_seq /\ line.pair_len >= 2

\* the warning printed for a line whose inner pair is not as expected
LineWarning(idx) == "line " \o ToString(idx) \o " format"

\* (a variant without the test of the inner pair: line[1][1] raises)
NestedStepUnguarded(acc, line, idx) ==
    IF ~LineHasTwoFields(line) THEN acc
    ELSE IF ~PairWellFormed(line)
         THEN [acc EXCEPT !.exc = "IndexError"]
         ELSE AppendBlock(acc, line.text, line.conf, line.box, idx)

\* one iteration of the loop over the nested shape
NestedStep(acc, line, idx) ==
    IF ~LineHasTwoFields(line) THEN acc
    ELSE IF ~PairWellFormed(line)
         THEN [acc EXCEPT !.printed = Append(@, LineWarning(idx))]
         ELSE AppendBlock(acc, line.text, line.conf, line.box, idx)

\* the loop over enumerate(result_item) of the nested shape
RECURSIVE NestedLoop(_, _, _)
NestedLoop(lines, idx, acc) ==
    IF idx >= Len(lines) \/ acc.exc # "" THEN acc
    ELSE NestedLoop(lines, idx + 1, NestedStep(acc, lines[idx + 1], idx))

\* `ocr_result and isinstance(ocr_result, list) and len(ocr_result) > 0`
HasFirstItem(result) == result.t = "list" /\ Len(result.items) > 0

\* (a variant that reads the last top-level element instead of the first)
ResultItemLast(result) == result.items[Len(result.items)]

\* result_item = ocr_result[0]
ResultItem(result) == result.items[1]

\* hasattr(result_item, 'keys') and callable(result_item.keys)
IsMapping(item) == item.t = "map"

\* the branch of the if/elif chain taken for the raw result
Branch(result) ==
    IF ~HasFirstItem(result) THEN "none"
    ELSE LET result_item == ResultItem(result)
         IN  IF IsMapping(result_item)
             THEN IF "rec_texts" \in result_item.keys THEN "batch"
                  ELSE "no_rec_texts"
             ELSE IF result_item.t = "str" THEN "flat"
             ELSE IF result_item.t = "list" THEN "nested"
             ELSE "none"

\* the warning printed for a mapping without the key 'rec_texts'
NoRecTextsWarning == "no rec_texts"

\* the locals after the if/elif chain, for a call that started with the
\* locals `start`
DetectFrom(start, result) ==
    LET branch == Branch(result)
    IN  CASE branch = "batch" ->
                BatchLoop(GetTexts(ResultItem(result)),
                          GetScores(ResultItem(result)),
                          GetPolys(ResultItem(result)), 0, start)
          [] branch = "no_rec_texts" ->
                [start EXCEPT !.printed = Append(@, NoRecTextsWarning)]
          [] branch = "flat" -> FlatLoop(result.items, 0, start)
          [] branch = "nested" ->
                NestedLoop(ResultItem(result).lines, 0, start)
          [] OTHER -> start

\* the locals after the if/elif chain of a first call
Detect(result) == DetectFrom(StartLocals(EmptyLocals), result)

\* (a variant that does not divide the sum by the number of confidences)
AvgConfidenceSumOnly(confidences) ==
    IF confidences = <<>> THEN 0 ELSE 10 * SumSeq(confidences)

\* sum(confidences) / len(confidences) if confidences else 0.0, rounded to
\* four decimals: in ten-thousandths
AvgConfidence(confidences) ==
    IF confidences = <<>> THEN 0
    ELSE RoundSigned(10 * SumSeq(confidences), Len(confidences))

\* (a variant whose minimum of no confidence is 1.0)
MinConfidenceDefaultOne(confidences) ==
    IF confidences = <<>> THEN 10000 ELSE 10 * MinSeq(confidences)

\* round(min(confidences), 4) if confidences else 0.0
MinConfidence(confidences) ==
    IF confidences = <<>> THEN 0 ELSE 10 * MinSeq(confidences)

\* round(max(confidences), 4) if confidences else 0.0
MaxConfidence(confidences) ==
    IF confidences = <<>> THEN 0 ELSE 10 * MaxSeq(confidences)

\* the metadata dict before the caller's extra_info is merged in
ComputedMetadata(path, text_blocks, confidences) ==
    [image_path |-> PathAbsolute(path),
     file_name |-> PathName(path),
     ocr_model |-> Reader.ocr_version,
     language |-> Reader.lang,
     num_text_blocks |-> Len(text_blocks),
     avg_confidence |-> AvgConfidence(confidences),
     min_confidence |-> MinConfidence(confidences),
     max_confidence |-> MaxConfidence(confidences),
     used_gpu |-> Reader.use_gpu]

\* (a variant in which a computed value wins over the caller's)
MergeExtraComputedWins(metadata, extra) ==
    [k \in (DOMAIN metadata) \cup (DOMAIN extra) |->
        IF k \in DOMAIN metadata THEN metadata[k] ELSE extra[k]]

\* `if extra_info: metadata.update(extra_info)`.  extra_info is a mapping;
\* the empty mapping also stands for None, which the test treats alike.
MergeExtra(metadata, extra) ==
    [k \in (DOMAIN metadata) \cup (DOMAIN extra) |->
        IF k \in DOMAIN extra THEN extra[k] ELSE metadata[k]]

\* the caller's extra_info after `metadata.update(extra_info)`: update writes
\* the fresh dict metadata and only reads its argument
ExtraInfoAfter(metadata, extra) == extra

\* the caller's extra_info after the call; a call that raised never reached
\* the update
ExtraInfoAfterCall(r, path, extra) ==
    IF r.exc # "" THEN extra
    ELSE ExtraInfoAfter(ComputedMetadata(path, r.text_blocks, r.confidences),
                        extra)

\* the metadata of a call that raised: there is none
NoMetadata == [k \in {} |-> 0]

\* _process_ocr_result(ocr_result, file_path, extra_info) called on a reader
\* whose call before it ended with the lists of prev: the locals, and the
\* returned (formatted_text, metadata) when no exception was raised
ProcessOcrResultAfter(prev, result, path, extra) ==
    LET acc == DetectFrom(StartLocals(prev), result)
    IN  IF acc.exc # ""
        THEN [exc |-> acc.exc, branch |-> Branch(result),
              text_blocks |-> acc.text_blocks,
              confidences |-> acc.confidences,
              detailed_blocks |-> acc.detailed_blocks,
              printed |-> acc.printed,
              text |-> "", metadata |-> NoMetadata]
        ELSE [exc |-> "", branch |-> Branch(result),
              text_blocks |-> acc.text_blocks,
              confidences |-> acc.confidences,
              detailed_blocks |-> acc.detailed_blocks,
              printed |-> acc.printed,
              text |-> FormatTextBlocks(acc.text_blocks, acc.confidences),
              metadata |-> MergeExtra(
                  ComputedMetadata(path, acc.text_blocks, acc.confidences),
                  extra)]

\* the same for the first call on a reader
ProcessOcrResult(result, path, extra) ==
    ProcessOcrResultAfter(EmptyLocals, result, path, extra)

(***************************************************************************)
(* The inputs the model draws.                                             *)
(***************************************************************************)
\* recognized texts
Texts == {"A", "B"}

\* scores the engine reports: 0.0, 0.125 (a tie of the two-decimal rounding),
\* 0.9, and 1.5 (out of range); and a value that is no number
Confs == {NumConf(0), NumConf(125), NumConf(900), NumConf(1500), BadConf}

\* the scores of the batch shape
BatchConfs == {NumConf(125), NumConf(800), NumConf(900), BadConf}

\* dt_polys of length k
Polys(k) == [i \in 1..k |-> "P" \o ToString(i)]

\* a mapping with a 'rec_texts' key; a key whose list is empty is left out
BatchItem(rec_texts, rec_scores, k) ==
    MapItem({"rec_texts"}
                \cup (IF rec_scores # <<>> THEN {"rec_scores"} ELSE {})
                \cup (IF k > 0 THEN {"dt_polys"} ELSE {}),
            rec_texts, rec_scores, Polys(k))

\* the mappings without a 'rec_texts' key: {} and {'dt_polys': [...]}
NoRecTextsItems ==
    {MapItem({}, <<>>, <<>>, <<>>), MapItem({"dt_polys"}, <<>>, <<>>, Polys(1))}

\* the entries of a page of the nested shape: None, [box], [box, 'x'],
\* [box, ('A',)] and [box, (text, confidence)]
NestedLines ==
    {NoneLine,
     ListLine(1, "Q", FALSE, 0, "", BadConf),
     ListLine(2, "Q", FALSE, 0, "", BadConf),
     ListLine(2, "Q", TRUE, 1, "A", BadConf)}
    \cup {ListLine(2, "Q", TRUE, 2, t, c) : t \in Texts, c \in Confs}

\* the elements of a flat result: texts, the empty text, None
FlatItems == {StrItem(s) : s \in Texts \cup {""}} \cup {NoneItem}

\* results of two top-level elements (two pages)
FirstPages ==
    {NoneItem, OtherItem, MapItem({}, <<>>, <<>>, <<>>),
     MapItem({"rec_texts", "rec_scores"}, <<"A">>, <<NumConf(900)>>, <<>>),
     ListItem(<<ListLine(2, "Q", TRUE, 2, "A", NumConf(900))>>),
     ListItem(<<>>)}

SecondPages ==
    {NoneItem, StrItem("B"),
     MapItem({"rec_texts"}, <<"B">>, <<>>, <<>>),
     ListItem(<<ListLine(2, "Q", TRUE, 2, "B", NumConf(800))>>)}

TwoPageResults ==
    {ListResult(<<a, b>>) : a \in FirstPages, b \in SecondPages}

\* the unrecognized results: None, a non-list object, [], [None], [5],
\* and a mapping without 'rec_texts'
UnrecognizedResults ==
    {NoneResult, OtherResult, ListResult(<<>>), ListResult(<<NoneItem>>),
     ListResult(<<OtherItem>>)}
    \cup {ListResult(<<m>>) : m \in NoRecTextsItems}

\* file paths, relative and absolute
DefaultPath == "img/a.png"
FilePaths == {DefaultPath, "/data/b.PNG"}

\* the caller's extra_info: None (or {}), a mapping with a key of its own, and
\* a mapping that also holds the computed keys num_text_blocks and image_path
NoExtra == [k \in {} |-> 0]
ExtraInfos ==
    {NoExtra, [source |-> "scanner"],
     [source |-> "scanner", num_text_blocks |-> 99, image_path |-> "x.png"]}

\* the results tried with every path and every extra_info
SampleResults ==
    UnrecognizedResults \cup TwoPageResults
    \cup {ListResult(<<StrItem("A"), StrItem(""), StrItem("B")>>)}

\* the raw results of one page the model draws: every mapping with
\* 'rec_texts' (batch shape), every page of entries (nested shape) and every
\* sequence of texts that starts with a str (flat shape), up to MaxLen
IsRawResult(result) ==
    \/ \E n \in 0..MaxLen, m \in 0..MaxLen, k \in 0..MaxLen :
        \E t \in [1..n -> Texts], c \in [1..m -> BatchConfs] :
            result = ListResult(<<BatchItem(t, c, k)>>)
    \/ \E n \in 0..MaxLen : \E lines \in [1..n -> NestedLines] :
            result = ListResult(<<ListItem(lines)>>)
    \/ \E n \in 1..MaxLen : \E items \in [1..n -> FlatItems] :
            items[1].t = "str" /\ result = ListResult(items)

(***************************************************************************)
(* The state machine: one call of _process_ocr_result.                     *)
(***************************************************************************)
\* ret before the call has run
NoRet ==
    [exc |-> "", branch |-> "none", text_blocks |-> <<>>, confidences |-> <<>>,
     detailed_blocks |-> <<>>, printed |-> <<>>, text |-> "",
     metadata |-> NoMetadata]

\* no exception
NoExc == [type |-> "", at |-> ""]

\* the argument `file` of load_data: one path, or a list of paths
OnePath(p) == [single |-> TRUE, path |-> p, list |-> <<>>]
PathList(l) == [single |-> FALSE, path |-> "", list |-> l]

\* the caller has received nothing (yet); the caller received a list
NotReturned == [has |-> FALSE, docs |-> <<>>]
Returned(docs) == [has |-> TRUE, docs |-> docs]

\* load_data_from_dir is not running
DirIdle ==
    /\ dir_path = ""
    /\ recursive = FALSE
    /\ image_files = <<>>
    /\ log = <<>>

\* Settings before anything wrote it
NoSettings == [llm |-> "unset", embed_model |-> "unset", text_splitter |-> "unset"]

\* no index, no response
NoIndex == [id |-> 0, nodes |-> <<>>]
NoResponse == [response |-> "", source_nodes |-> <<>>]

\* no main script is running
PipeIdle ==
    /\ pipeline = ""
    /\ api_key = FALSE
    /\ data_dir = ""
    /\ present = {}
    /\ settings = NoSettings
    /\ events = <<>>
    /\ cfg_idx = 0
    /\ base_nodes = <<>>
    /\ nodes = <<>>
    /\ index = NoIndex
    /\ response = NoResponse
    /\ all_results = <<>>
    /\ img_idx = 0
    /\ all_documents = <<>>
    /\ llm_configured = FALSE
    /\ query_idx = 0

\* load_data is not running
LoadIdle ==
    /\ file = PathList(<<>>)
    /\ files = <<>>
    /\ file_idx = 0
    /\ documents = <<>>
    /\ ocr_calls = <<>>
    /\ exc = NoExc
    /\ returned = NotReturned
    /\ DirIdle

Init ==
    /\ pc = "call"
    /\ \/ /\ IsRawResult(ocr_result)
          /\ file_path = DefaultPath
          /\ extra_info = NoExtra
       \/ /\ ocr_result \in SampleResults
          /\ file_path \in FilePaths
          /\ extra_info \in ExtraInfos
    /\ ret = NoRet
    /\ again = NoRet
    /\ LoadIdle
    /\ PipeIdle

\* the call runs: it returns (text, metadata) or raises
Process ==
    /\ pc = "call"
    /\ ret' = ProcessOcrResultAfter(ret, ocr_result, file_path, extra_info)
    /\ extra_info' = ExtraInfoAfterCall(ret', file_path, extra_info)
    /\ pc' = IF ret'.exc = "" THEN "returned" ELSE "raised"
    /\ UNCHANGED <<ocr_result, file_path, again>>
    /\ UNCHANGED load_vars
    /\ UNCHANGED dir_vars
    /\ UNCHANGED pipe_vars

\* the caller calls again, on the same reader, with the objects it passed the
\* first time, as the first call left them; the reader has seen the first
\* call, whose lists are those of ret
ProcessAgain ==
    /\ pc \in {"returned", "raised"}
    /\ again' = ProcessOcrResultAfter(ret, ocr_result, file_path, extra_info)
    /\ extra_info' = ExtraInfoAfterCall(again', file_path, extra_info)
    /\ pc' = IF again'.exc = "" THEN "returned_again" ELSE "raised_again"
    /\ UNCHANGED <<ocr_result, file_path, ret>>
    /\ UNCHANGED load_vars
    /\ UNCHANGED dir_vars
    /\ UNCHANGED pipe_vars

Next == Process \/ ProcessAgain

Spec == Init /\ [][Next]_vars

(***************************************************************************)
(* load_data: the loop over the files.                                     *)
(***************************************************************************)
\* the files that exist
ExistingPaths ==
    {"img/a.png", "/data/b.PNG", "anim.gif", "README",
     "imgs/b.JPG", "imgs/a.png", "imgs/notes.txt", "imgs/d.png/h.png",
     "imgs/sub/e.gif", "imgs/sub/c.tif", "docs/readme.md"}

\* the directories that exist; one of them has the name of an image
Directories == {"imgs", "imgs/d.png", "imgs/sub", "docs", "empty"}

\* the names a directory lists, in the order the system lists them
DirNames(d) ==
    CASE d = "imgs" -> <<"b.JPG", "a.png", "d.png", "sub", "notes.txt">>
      [] d = "imgs/d.png" -> <<"h.png">>
      [] d = "imgs/sub" -> <<"e.gif", "c.tif">>
      [] d = "docs" -> <<"readme.md">>
      [] OTHER -> <<>>

\* the paths given to load_data: two images, a GIF, a file without suffix,
\* and two files that do not exist
LoadPaths ==
    {"img/a.png", "/data/b.PNG", "anim.gif", "README", "missing.png", "gone.gif"}

\* (a variant for which every path exists)
PathExistsAlways(path) == TRUE

\* Path.exists(), Path.is_dir(), Path.is_file()
PathExists(path) == path \in ExistingPaths \cup Directories
IsDir(path) == path \in Directories
IsFile(path) == path \in ExistingPaths

\* supported_formats
SupportedFormats == {".png", ".jpg", ".jpeg", ".bmp", ".tiff", ".tif", ".webp"}

\* (a variant that does not lower-case the suffix)
SupportedFormatCaseSensitive(path) == PathSuffix(path) \in SupportedFormats

\* file_path.suffix.lower() in supported_formats
SupportedFormat(path) == Lower(PathSuffix(path)) \in SupportedFormats

\* what the engine may return for an image: None, the batch shape, and a
\* page of the nested shape whose confidence is no number
EngineResults ==
    {NoneResult,
     ListResult(<<MapItem({"rec_texts", "rec_scores"}, <<"A", "B">>,
                          <<NumConf(900), NumConf(800)>>, <<>>)>>),
     ListResult(<<ListItem(<<ListLine(2, "Q", TRUE, 2, "A", BadConf)>>)>>)}

\* the calls of load_data the model makes
IsLoadCall(f) ==
    \/ \E p \in LoadPaths : f = OnePath(p)
    \/ \E n \in 0..MaxFiles : \E l \in [1..n -> LoadPaths] : f = PathList(l)

\* the directory paths given to load_data_from_dir: four directories, a path
\* that does not exist, and a file
DirPaths == {"imgs", "imgs/sub", "docs", "empty", "nowhere", "img/a.png"}

\* load_data is called, or load_data_from_dir is
InitLoad ==
    /\ \/ /\ pc = "load_data"
          /\ IsLoadCall(file)
          /\ dir_path = ""
          /\ recursive = FALSE
       \/ /\ pc = "load_data_from_dir"
          /\ file = PathList(<<>>)
          /\ dir_path \in DirPaths
          /\ recursive \in BOOLEAN
    /\ image_files = <<>>
    /\ log = <<>>
    /\ returned = NotReturned
    /\ extra_info \in ExtraInfos
    /\ files = <<>>
    /\ file_idx = 0
    /\ documents = <<>>
    /\ ocr_calls = <<>>
    /\ exc = NoExc
    /\ ocr_result = NoneResult
    /\ file_path = ""
    /\ ret = NoRet
    /\ again = NoRet
    /\ PipeIdle

\* the entry of load_data: one path becomes a list of one path
LoadData ==
    /\ pc = "load_data"
    /\ files' = IF file.single THEN <<file.path>> ELSE file.list
    /\ documents' = <<>>
    /\ file_idx' = 1
    /\ pc' = "loop"
    /\ UNCHANGED <<ocr_result, file_path, extra_info, ret, again, file, ocr_calls, exc>>
    /\ UNCHANGED <<returned, dir_vars>>
    /\ UNCHANGED pipe_vars

\* `for file_path in files`: the next file, or `return documents`
LoopHead ==
    /\ pc = "loop"
    /\ IF file_idx > Len(files)
       THEN /\ pc' = "load_returned"
            /\ returned' = Returned(documents)
            /\ UNCHANGED file_path
       ELSE /\ file_path' = files[file_idx]
            /\ pc' = "check_exists"
            /\ UNCHANGED returned
    /\ UNCHANGED <<ocr_result, extra_info, ret, again, file, files, file_idx,
                   documents, ocr_calls, exc>>
    /\ UNCHANGED dir_vars
    /\ UNCHANGED pipe_vars

\* `if not file_path.exists(): raise FileNotFoundError`
CheckExists ==
    /\ pc = "check_exists"
    /\ IF ~PathExists(file_path)
       THEN /\ exc' = [type |-> "FileNotFoundError", at |-> "check_exists"]
            /\ pc' = "load_raised"
       ELSE /\ pc' = "check_format"
            /\ UNCHANGED exc
    /\ UNCHANGED <<ocr_result, file_path, extra_info, ret, again, file, files,
                   file_idx, documents, ocr_calls>>
    /\ UNCHANGED <<returned, dir_vars>>
    /\ UNCHANGED pipe_vars

\* `if file_path.suffix.lower() not in supported_formats: raise ValueError`
CheckFormat ==
    /\ pc = "check_format"
    /\ IF ~SupportedFormat(file_path)
       THEN /\ exc' = [type |-> "ValueError", at |-> "check_format"]
            /\ pc' = "load_raised"
       ELSE /\ pc' = "ocr"
            /\ UNCHANGED exc
    /\ UNCHANGED <<ocr_result, file_path, extra_info, ret, again, file, files,
                   file_idx, documents, ocr_calls>>
    /\ UNCHANGED <<returned, dir_vars>>
    /\ UNCHANGED pipe_vars

\* `result = self.ocr_model.ocr(str(file_path))`: the engine is invoked
InvokeOcr ==
    /\ pc = "ocr"
    /\ ocr_calls' = Append(ocr_calls, file_path)
    /\ ocr_result' \in EngineResults
    /\ pc' = "process"
    /\ UNCHANGED <<file_path, extra_info, ret, again, file, files, file_idx,
                   documents, exc>>
    /\ UNCHANGED <<returned, dir_vars>>
    /\ UNCHANGED pipe_vars

\* `text_content, metadata = self._process_ocr_result(...)`, then
\* `documents.append(Document(text=..., metadata=...))`; an exception of
\* _process_ocr_result leaves load_data
BuildDocument ==
    /\ pc = "process"
    /\ ret' = ProcessOcrResultAfter(ret, ocr_result, file_path, extra_info)
    /\ IF ret'.exc # ""
       THEN /\ exc' = [type |-> ret'.exc, at |-> "process"]
            /\ pc' = "load_raised"
            /\ UNCHANGED <<documents, file_idx>>
       ELSE /\ documents' = Append(documents,
                    [text |-> ret'.text, metadata |-> ret'.metadata])
            /\ file_idx' = file_idx + 1
            /\ pc' = "loop"
            /\ UNCHANGED exc
    /\ extra_info' = ExtraInfoAfterCall(ret', file_path, extra_info)
    /\ UNCHANGED <<ocr_result, file_path, again, file, files, ocr_calls>>
    /\ UNCHANGED <<returned, dir_vars>>
    /\ UNCHANGED pipe_vars

\* dir_path.glob('*'): the entries of the directory
Glob(d) == [i \in 1..Len(DirNames(d)) |-> d \o "/" \o DirNames(d)[i]]

RECURSIVE ConcatAll(_)
ConcatAll(seqs) ==
    IF seqs = <<>> THEN <<>> ELSE Head(seqs) \o ConcatAll(Tail(seqs))

\* the directory and the directories below it, each before those it holds
RECURSIVE Walk(_)
Walk(d) ==
    <<d>> \o ConcatAll([i \in 1..Len(Glob(d)) |->
                IF IsDir(Glob(d)[i]) THEN Walk(Glob(d)[i]) ELSE <<>>])

\* dir_path.rglob('*'): the entries of the directory and of every directory
\* below it
RGlob(d) == ConcatAll([i \in 1..Len(Walk(d)) |-> Glob(Walk(d)[i])])

\* image_extensions
ImageExtensions == {".png", ".jpg", ".jpeg", ".bmp", ".tiff", ".tif", ".webp"}

\* f.suffix.lower() in image_extensions and f.is_file()
IsImageFile(f) == Lower(PathSuffix(f)) \in ImageExtensions /\ IsFile(f)

\* (a variant that searches the subdirectories whatever `recursive` is)
ImageFilesAllDescendants(d, rec) == SelectSeq(RGlob(d), IsImageFile)

\* the list image_files
ImageFiles(d, rec) ==
    SelectSeq(IF rec THEN RGlob(d) ELSE Glob(d), IsImageFile)

\* what load_data_from_dir prints
NoImagesWarning(d) == "warning: no image files in " \o d
FoundMessage(n) == "found " \o ToString(n) \o " image files"

\* load_data_from_dir up to its return of [] or its call of load_data
LoadDataFromDir ==
    /\ pc = "load_data_from_dir"
    /\ IF ~PathExists(dir_path) \/ ~IsDir(dir_path)
       THEN /\ exc' = [type |-> "ValueError", at |-> "check_dir"]
            /\ pc' = "load_raised"
            /\ UNCHANGED <<image_files, log, returned, file>>
       ELSE /\ image_files' = ImageFiles(dir_path, recursive)
            /\ IF image_files' = <<>>
               THEN /\ log' = Append(log, NoImagesWarning(dir_path))
                    /\ returned' = Returned(<<>>)
                    /\ pc' = "load_returned"
                    /\ UNCHANGED file
               ELSE /\ log' = Append(log, FoundMessage(Len(image_files')))
                    /\ file' = PathList(image_files')
                    /\ pc' = "load_data"
                    /\ UNCHANGED returned
            /\ UNCHANGED exc
    /\ UNCHANGED <<ocr_result, file_path, extra_info, ret, again, files, file_idx,
                   documents, ocr_calls, dir_path, recursive>>
    /\ UNCHANGED pipe_vars

NextLoad ==
    \/ LoadDataFromDir
    \/ LoadData
    \/ LoopHead
    \/ CheckExists
    \/ CheckFormat
    \/ InvokeOcr
    \/ BuildDocument

SpecLoad == InitLoad /\ [][NextLoad]_vars

(***************************************************************************)
(* The main script of chunking_research: the benchmark of the splitter     *)
(* configurations.  The splitters, the index, the query engine and the     *)
(* document reader are collaborators of the library: a split yields some   *)
(* number of chunks, a query some scored source nodes or an exception.     *)
(* Names and messages the code writes in Chinese are written in ASCII.     *)
(***************************************************************************)
\* how many configurations of each of the three lists the model evaluates
\* (the first ones of each list)
PerPart == 1

\* similarity_top_k
SimilarityTopK == 3

\* one splitter configuration
Config(name, kind, chunk_size, chunk_overlap, window_size) ==
    [name |-> name, kind |-> kind, chunk_size |-> chunk_size,
     chunk_overlap |-> chunk_overlap, window_size |-> window_size]

\* sentence_configurations
SentenceConfigurations ==
    <<Config("sentence-1", "sentence", 256, 0, 0),
      Config("sentence-2", "sentence", 256, 50, 0),
      Config("sentence-3", "sentence", 512, 50, 0),
      Config("sentence-4", "sentence", 512, 128, 0),
      Config("sentence-5", "sentence", 1024, 100, 0)>>

\* token_configurations
TokenConfigurations ==
    <<Config("token-1", "token", 128, 0, 0),
      Config("token-2", "token", 128, 20, 0),
      Config("token-3", "token", 256, 30, 0),
      Config("token-4", "token", 256, 50, 0),
      Config("token-5", "token", 512, 50, 0)>>

\* sentence_window_configurations
SentenceWindowConfigurations ==
    <<Config("window-1", "window", 0, 0, 1),
      Config("window-2", "window", 0, 0, 2),
      Config("window-3", "window", 0, 0, 3),
      Config("window-4", "window", 0, 0, 5),
      Config("window-5", "window", 0, 0, 10)>>

\* the configurations in the order the three loops of main evaluate them
Configurations ==
    SubSeq(SentenceConfigurations, 1, PerPart)
        \o SubSeq(TokenConfigurations, 1, PerPart)
        \o SubSeq(SentenceWindowConfigurations, 1, PerPart)

\* the splitter main builds for a configuration
Splitter(config) ==
    [cls |-> CASE config.kind = "sentence" -> "SentenceSplitter"
               [] config.kind = "token" -> "TokenTextSplitter"
               [] OTHER -> "SentenceWindowNodeParser",
     chunk_size |-> config.chunk_size,
     chunk_overlap |-> config.chunk_overlap,
     window_size |-> config.window_size]

\* base_splitter of evaluate_sentence_window_splitter
BaseSplitter ==
    [cls |-> "SentenceSplitter", chunk_size |-> 512, chunk_overlap |-> 50,
     window_size |-> 0]

\* the chunk sequence a splitter makes of its input: n chunks, in order
Chunks(splitter, input, n) ==
    [i \in 1..n |-> [splitter |-> splitter, input |-> input, no |-> i]]

\* how many chunks a split may yield
ChunkCounts == {1, 3}

\* the scores of the source nodes a query may return
AllScores == {<<>>, <<900>>, <<500, 250>>, <<900, 800, 700>>}

\* the source nodes of a query over an index of n nodes: at most
\* similarity_top_k, at most n
SourceScores(n) == {sc \in AllScores : Len(sc) <= Min2(SimilarityTopK, n)}

\* (a variant without the test for an empty list of source nodes, whose
\* division by zero is written as -1)
AvgSimilarityUnguarded(source_nodes) ==
    IF source_nodes = <<>> THEN -1
    ELSE (6 * SumSeq(source_nodes)) \div Len(source_nodes)

\* sum(node.score ...) / len(response.source_nodes) if response.source_nodes
\* else 0.  Scores are thousandths, the mean is a number of six-thousandths:
\* exact for one, two and three scores (similarity_top_k is 3).
AvgSimilarity(source_nodes) ==
    IF source_nodes = <<>> THEN 0
    ELSE (6 * SumSeq(source_nodes)) \div Len(source_nodes)

\* the dict `results` of evaluate_splitter / evaluate_sentence_window_splitter
Results(config_name, the_nodes, the_response) ==
    [config_name |-> config_name,
     num_chunks |-> Len(the_nodes),
     query_time |-> "elapsed",
     response |-> the_response.response,
     num_sources |-> Len(the_response.source_nodes),
     avg_similarity |-> AvgSimilarity(the_response.source_nodes)]

\* (a variant that hands out an index of no nodes)
NewIndexOfNothing(id, the_nodes) == [id |-> id, nodes |-> <<>>]

\* VectorStoreIndex(nodes): a new index of exactly these nodes
NewIndex(id, the_nodes) == [id |-> id, nodes |-> the_nodes]

\* (a variant that takes the API key for set)
KeyConfiguredAlways(key) == TRUE

\* the truth value of os.getenv("DASHSCOPE_API_KEY")
KeyConfigured(key) == key

\* one entry of `events`
Event(op, cfg, arg) == [op |-> op, cfg |-> cfg, arg |-> arg]

\* the three module-level writes of Settings, as events
ImportWrites ==
    <<Event("set", 0, "llm"), Event("set", 0, "embed_model"),
      Event("set", 0, "text_splitter")>>

\* the states of the data folder: absent, empty, holding text files
DataDirs == {"missing", "empty", "files"}

\* the chunking script starts: the module is about to be imported
InitBench ==
    /\ pipeline = "chunking"
    /\ pc = "import"
    /\ api_key \in BOOLEAN
    /\ data_dir \in DataDirs
    /\ present = {}
    /\ settings = NoSettings
    /\ events = <<>>
    /\ cfg_idx = 0
    /\ base_nodes = <<>>
    /\ nodes = <<>>
    /\ index = NoIndex
    /\ response = NoResponse
    /\ all_results = <<>>
    /\ img_idx = 0
    /\ all_documents = <<>>
    /\ llm_configured = FALSE
    /\ query_idx = 0

\* the module level of chunking_research/main.py: the three writes of Settings
Import ==
    /\ pipeline = "chunking"
    /\ pc = "import"
    /\ settings' = [llm |-> "qwen-plus", embed_model |-> "text-embedding-v3",
                    text_splitter |-> "SentenceSplitter(1024, 20)"]
    /\ events' = events \o ImportWrites
    /\ pc' = "main"
    /\ UNCHANGED <<documents, exc, log>>
    /\ UNCHANGED <<pipeline, api_key, data_dir, present, cfg_idx, base_nodes,
                   nodes, index, response, all_results, img_idx,
                   all_documents, llm_configured, query_idx>>
    /\ UNCHANGED reader_vars

\* main up to its first loop: the API key, the documents
BenchMain ==
    /\ pipeline = "chunking"
    /\ pc = "main"
    /\ IF ~KeyConfigured(api_key)
       THEN /\ log' = Append(log, "error: DASHSCOPE_API_KEY is not set")
            /\ pc' = "done"
            /\ UNCHANGED <<documents, events, cfg_idx, all_results>>
       ELSE IF data_dir # "files"
       THEN /\ log' = log \o <<"API key loaded", "error: data folder " \o data_dir>>
            /\ events' = Append(events, Event("load_documents", 0, data_dir))
            /\ pc' = "done"
            /\ UNCHANGED <<documents, cfg_idx, all_results>>
       ELSE /\ log' = log \o <<"API key loaded", "documents loaded">>
            /\ events' = Append(events, Event("load_documents", 0, data_dir))
            /\ documents' = <<"doc-1">>
            /\ cfg_idx' = 1
            /\ all_results' = <<>>
            /\ pc' = "split"
    /\ UNCHANGED exc
    /\ UNCHANGED <<pipeline, api_key, data_dir, present, settings, base_nodes,
                   nodes, index, response, img_idx, all_documents,
                   llm_configured, query_idx>>
    /\ UNCHANGED reader_vars

\* the head of an evaluation: the documents are split.  evaluate_splitter
\* splits them with the splitter of the configuration,
\* evaluate_sentence_window_splitter with its base_splitter.
Split ==
    /\ pipeline = "chunking"
    /\ pc = "split"
    /\ \E n \in ChunkCounts :
        LET config == Configurations[cfg_idx]
        IN  IF config.kind = "window"
            THEN /\ base_nodes' = Chunks(BaseSplitter, "documents", n)
                 /\ events' = Append(events,
                        Event("split", cfg_idx, base_nodes'))
                 /\ pc' = "window"
                 /\ UNCHANGED nodes
            ELSE /\ nodes' = Chunks(Splitter(config), "documents", n)
                 /\ events' = Append(events, Event("split", cfg_idx, nodes'))
                 /\ pc' = "index"
                 /\ UNCHANGED base_nodes
    /\ log' = Append(log, "config: " \o Configurations[cfg_idx].name)
    /\ UNCHANGED <<documents, exc>>
    /\ UNCHANGED <<pipeline, api_key, data_dir, present, settings, cfg_idx,
                   index, response, all_results, img_idx, all_documents,
                   llm_configured, query_idx>>
    /\ UNCHANGED reader_vars

\* nodes = splitter.build_window_nodes_from_documents(base_nodes)
BuildWindow ==
    /\ pipeline = "chunking"
    /\ pc = "window"
    /\ \E n \in ChunkCounts :
        nodes' = Chunks(Splitter(Configurations[cfg_idx]), "base_nodes", n)
    /\ events' = Append(events, Event("window", cfg_idx, nodes'))
    /\ pc' = "index"
    /\ UNCHANGED <<documents, exc, log>>
    /\ UNCHANGED <<pipeline, api_key, data_dir, present, settings, cfg_idx,
                   base_nodes, index, response, all_results, img_idx,
                   all_documents, llm_configured, query_idx>>
    /\ UNCHANGED reader_vars

\* index = VectorStoreIndex(nodes): a new index of the nodes, or an exception
\* of the embedding service, which nothing catches
BuildIndex ==
    /\ pipeline = "chunking"
    /\ pc = "index"
    /\ events' = Append(events, Event("index", cfg_idx, nodes))
    /\ \/ /\ index' = NewIndex(cfg_idx, nodes)
          /\ pc' = "query"
          /\ UNCHANGED exc
       \/ /\ exc' = [type |-> "Exception", at |-> "index"]
          /\ pc' = "crashed"
          /\ UNCHANGED index
    /\ UNCHANGED <<documents, log>>
    /\ UNCHANGED <<pipeline, api_key, data_dir, present, settings, cfg_idx,
                   base_nodes, nodes, response, all_results, img_idx,
                   all_documents, llm_configured, query_idx>>
    /\ UNCHANGED reader_vars

\* response = query_engine.query(query), and the rest of the evaluation:
\* `results`, all_results.append(result), the next configuration.  Nothing
\* catches an exception of the query: it leaves the evaluation and main.
Query ==
    /\ pipeline = "chunking"
    /\ pc = "query"
    /\ events' = Append(events, Event("query", cfg_idx, index))
    /\ \/ /\ exc' = [type |-> "Exception", at |-> "query"]
          /\ pc' = "crashed"
          /\ UNCHANGED <<response, all_results, cfg_idx, log>>
       \/ \E sc \in SourceScores(Len(index.nodes)) :
            /\ response' = [response |-> "answer", source_nodes |-> sc]
            /\ all_results' = Append(all_results,
                    Results(Configurations[cfg_idx].name, nodes, response'))
            /\ log' = Append(log, "evaluated: " \o Configurations[cfg_idx].name)
            /\ cfg_idx' = cfg_idx + 1
            /\ pc' = IF cfg_idx' > Len(Configurations) THEN "report" ELSE "split"
            /\ UNCHANGED exc
    /\ UNCHANGED documents
    /\ UNCHANGED <<pipeline, api_key, data_dir, present, settings, base_nodes,
                   nodes, index, img_idx, all_documents, llm_configured,
                   query_idx>>
    /\ UNCHANGED reader_vars

\* max(all_results, key=lambda x: x['avg_similarity']): the first of the
\* results with the highest mean
RECURSIVE OverallBest(_)
OverallBest(results) ==
    IF Len(results) = 1 THEN results[1]
    ELSE LET best == OverallBest(Tail(results))
         IN  IF results[1].avg_similarity >= best.avg_similarity
             THEN results[1] ELSE best

\* the summary report of main: one row per result, the best configuration
Report ==
    /\ pipeline = "chunking"
    /\ pc = "report"
    /\ log' = log
            \o [i \in 1..Len(all_results) |-> "row: " \o all_results[i].config_name]
            \o <<"best: " \o OverallBest(all_results).config_name, "test finished">>
    /\ pc' = "done"
    /\ UNCHANGED <<documents, exc>>
    /\ UNCHANGED pipe_vars
    /\ UNCHANGED reader_vars

(***************************************************************************)
(* The main script of ocr_research: demo_basic_ocr over the test images,   *)
(* then demo_llamaindex_integration.  Every test image that exists has a   *)
(* supported suffix, and the engine reports numeric scores for it, so      *)
(* load_data returns one document for it.                                  *)
(***************************************************************************)
\* test_images
TestImages == <<"paddle-1.png", "paddle-2.png", "paddle-3.jpg">>

\* queries, and the part of it the loop runs: queries[:1]
Queries == <<"what does the picture say", "key information", "summarize">>
QueriesRun == SubSeq(Queries, 1, 1)

\* the ocr script starts: main is about to call demo_basic_ocr
InitDemo ==
    /\ pipeline = "ocr"
    /\ pc = "basic_ocr"
    /\ api_key \in BOOLEAN
    /\ data_dir = ""
    /\ present \in SUBSET {TestImages[i] : i \in 1..Len(TestImages)}
    /\ settings = NoSettings
    /\ events = <<>>
    /\ cfg_idx = 0
    /\ base_nodes = <<>>
    /\ nodes = <<>>
    /\ index = NoIndex
    /\ response = NoResponse
    /\ all_results = <<>>
    /\ img_idx = 1
    /\ all_documents = <<>>
    /\ llm_configured = FALSE
    /\ query_idx = 0

\* one iteration of the loop of demo_basic_ocr: reader.load_data(path)
\* invokes the engine on the image and returns the list of its one document;
\* after the last iteration main calls demo_llamaindex_integration when
\* there is a document
BasicOcr ==
    /\ pipeline = "ocr"
    /\ pc = "basic_ocr"
    /\ IF img_idx > Len(TestImages)
       THEN /\ documents' = all_documents
            /\ pc' = IF all_documents # <<>> THEN "integration" ELSE "final"
            /\ log' = Append(log, "images processed: "
                                    \o ToString(Len(all_documents)))
            /\ UNCHANGED <<events, all_documents, img_idx, ocr_calls, returned>>
       ELSE IF TestImages[img_idx] \notin present
       THEN /\ log' = Append(log, "warning: no test image " \o TestImages[img_idx])
            /\ img_idx' = img_idx + 1
            /\ pc' = "basic_ocr"
            /\ UNCHANGED <<documents, events, all_documents, ocr_calls,
                           returned>>
       ELSE /\ events' = Append(events, Event("ocr_load", 0, TestImages[img_idx]))
            /\ ocr_calls' = Append(ocr_calls, TestImages[img_idx])
            /\ documents' = <<"doc of " \o TestImages[img_idx]>>
            /\ returned' = Returned(documents')
            /\ all_documents' = all_documents \o documents'
            /\ log' = Append(log, "text of " \o TestImages[img_idx])
            /\ img_idx' = img_idx + 1
            /\ pc' = "basic_ocr"
    /\ UNCHANGED exc
    /\ UNCHANGED <<pipeline, api_key, data_dir, present, settings, cfg_idx,
                   base_nodes, nodes, index, response, all_results,
                   llm_configured, query_idx>>
    /\ UNCHANGED reader_quiet_vars

\* demo_llamaindex_integration up to its try: the test of `documents`, and
\* setup_llm, which writes Settings.llm and Settings.embed_model when the
\* API key is set
Integration ==
    /\ pipeline = "ocr"
    /\ pc = "integration"
    /\ IF documents = <<>>
       THEN /\ log' = Append(log, "error: no documents")
            /\ pc' = "final"
            /\ UNCHANGED <<settings, events, llm_configured>>
       ELSE IF ~KeyConfigured(api_key)
       THEN /\ llm_configured' = FALSE
            /\ log' = log \o <<"warning: DASHSCOPE_API_KEY is not set",
                               "skipping the query demo">>
            /\ pc' = "demo_index"
            /\ UNCHANGED <<settings, events>>
       ELSE /\ llm_configured' = TRUE
            /\ settings' = [settings EXCEPT !.llm = "qwen-plus",
                                            !.embed_model = "text-embedding-v3"]
            /\ events' = events \o <<Event("set", 0, "llm"),
                                     Event("set", 0, "embed_model")>>
            /\ log' = Append(log, "LLM and embedding model configured")
            /\ pc' = "demo_index"
    /\ UNCHANGED <<documents, exc>>
    /\ UNCHANGED <<pipeline, api_key, data_dir, present, cfg_idx, base_nodes,
                   nodes, index, response, all_results, img_idx,
                   all_documents, query_idx>>
    /\ UNCHANGED reader_vars

\* the head of the try: Settings.text_splitter is written, the index is
\* built from the documents.  An exception of the index building is caught
\* by the outer except and printed.
DemoIndex ==
    /\ pipeline = "ocr"
    /\ pc = "demo_index"
    /\ settings' = [settings EXCEPT !.text_splitter = "SentenceSplitter(2048, 200)"]
    /\ events' = events \o <<Event("set", 0, "text_splitter"),
                             Event("index", 0, documents)>>
    /\ \/ /\ index' = NewIndex(1, documents)
          /\ IF llm_configured
             THEN /\ log' = Append(log, "index built")
                  /\ query_idx' = 1
                  /\ pc' = "demo_query"
             ELSE /\ log' = log \o <<"index built",
                                     "hint: set DASHSCOPE_API_KEY to query">>
                  /\ pc' = "final"
                  /\ UNCHANGED query_idx
       \/ /\ log' = Append(log, "error: index building or query failed")
          /\ pc' = "final"
          /\ UNCHANGED <<index, query_idx>>
    /\ UNCHANGED <<documents, exc>>
    /\ UNCHANGED <<pipeline, api_key, data_dir, present, cfg_idx, base_nodes,
                   nodes, response, all_results, img_idx, all_documents,
                   llm_configured>>
    /\ UNCHANGED reader_vars

\* one iteration of the loop over queries[:1]: the query, whose exception is
\* caught by the inner except and printed
DemoQuery ==
    /\ pipeline = "ocr"
    /\ pc = "demo_query"
    /\ IF query_idx > Len(QueriesRun)
       THEN /\ pc' = "final"
            /\ UNCHANGED <<events, response, log, query_idx>>
       ELSE /\ events' = Append(events, Event("query", 0, index))
            /\ \/ \E sc \in SourceScores(Len(index.nodes)) :
                    /\ response' = [response |-> "answer", source_nodes |-> sc]
                    /\ log' = Append(log, "answer to query " \o ToString(query_idx))
               \/ /\ log' = Append(log, "error: query " \o ToString(query_idx)
                                            \o " failed")
                  /\ UNCHANGED response
            /\ query_idx' = query_idx + 1
            /\ pc' = "demo_query"
    /\ UNCHANGED <<documents, exc>>
    /\ UNCHANGED <<pipeline, api_key, data_dir, present, settings, cfg_idx,
                   base_nodes, nodes, index, all_results, img_idx,
                   all_documents, llm_configured>>
    /\ UNCHANGED reader_vars

\* the end of main
Final ==
    /\ pipeline = "ocr"
    /\ pc = "final"
    /\ log' = Append(log, "demo finished")
    /\ pc' = "done"
    /\ UNCHANGED <<documents, exc>>
    /\ UNCHANGED pipe_vars
    /\ UNCHANGED reader_vars

(***************************************************************************)
(* The two demos of ocr_research that main does not call (their calls are  *)
(* commented out): demo_batch_ocr and demo_directory_loading, each called  *)
(* on its own.  The images of the script's directory are the test images   *)
(* that exist; the directory is listed in the order the operating system   *)
(* gives, which is any order, and nothing sorts it.                        *)
(***************************************************************************)
\* a demo is about to be called on its own
InitDemoAlone ==
    /\ \/ pipeline = "ocr_batch" /\ pc = "batch_ocr"
       \/ pipeline = "ocr_dir" /\ pc = "directory_loading"
    /\ api_key \in BOOLEAN
    /\ data_dir = ""
    /\ present \in SUBSET {TestImages[i] : i \in 1..Len(TestImages)}
    /\ settings = NoSettings
    /\ events = <<>>
    /\ cfg_idx = 0
    /\ base_nodes = <<>>
    /\ nodes = <<>>
    /\ index = NoIndex
    /\ response = NoResponse
    /\ all_results = <<>>
    /\ img_idx = 0
    /\ all_documents = <<>>
    /\ llm_configured = FALSE
    /\ query_idx = 0

\* the orders in which a directory holding the files S can be listed
Listings(S) ==
    {l \in [1..Cardinality(S) -> S] :
        \A i, j \in 1..Cardinality(S) : l[i] = l[j] => i = j}

\* current_dir.glob("*" + suffix): the files of the listing whose name ends
\* with the suffix, in listing order
GlobSuffix(listing, suffix) ==
    SelectSeq(listing, LAMBDA f : PathSuffix(f) = suffix)

\* the list image_files of load_data_from_dir over the listing (every entry
\* of the listing is a file)
DirImageFiles(listing) ==
    SelectSeq(listing, LAMBDA f : Lower(PathSuffix(f)) \in ImageExtensions)

\* the documents load_data returns for a list of images: one for each
DocumentsOf(images) == [i \in 1..Len(images) |-> "doc of " \o images[i]]

\* demo_batch_ocr: the *.png files and then the *.jpg files of the
\* directory, each in listing order, are given to load_data as one list;
\* without any, the demo
\* prints a hint and returns None
DemoBatchOcr ==
    /\ pipeline = "ocr_batch"
    /\ pc = "batch_ocr"
    /\ \E listing \in Listings(present) :
       LET found == GlobSuffix(listing, ".png") \o GlobSuffix(listing, ".jpg")
       IN  IF found = <<>>
           THEN /\ log' = Append(log, "hint: no image files")
                /\ UNCHANGED <<documents, events, ocr_calls, returned>>
           ELSE /\ events' = Append(events, Event("ocr_load", 0, found))
                /\ ocr_calls' = ocr_calls \o found
                /\ documents' = DocumentsOf(found)
                /\ returned' = Returned(documents')
                /\ log' = log \o <<FoundMessage(Len(found)),
                                    "images processed: "
                                        \o ToString(Len(documents'))>>
    /\ pc' = "done"
    /\ UNCHANGED exc
    /\ UNCHANGED <<pipeline, api_key, data_dir, present, settings, cfg_idx,
                   base_nodes, nodes, index, response, all_results, img_idx,
                   all_documents, llm_configured, query_idx>>
    /\ UNCHANGED reader_quiet_vars

\* demo_directory_loading: load_data_from_dir over the directory, not
\* recursive, takes the images in listing order; it returns [] with a
\* warning when the directory has no image
DemoDirectoryLoading ==
    /\ pipeline = "ocr_dir"
    /\ pc = "directory_loading"
    /\ \E listing \in Listings(present) :
       LET found == DirImageFiles(listing)
       IN  IF found = <<>>
           THEN /\ log' = Append(log, NoImagesWarning("ocr_research"))
                /\ documents' = <<>>
                /\ returned' = Returned(<<>>)
                /\ UNCHANGED <<events, ocr_calls>>
           ELSE /\ events' = Append(events, Event("ocr_load", 0, found))
                /\ ocr_calls' = ocr_calls \o found
                /\ documents' = DocumentsOf(found)
                /\ returned' = Returned(documents')
                /\ log' = log \o <<FoundMessage(Len(found)),
                                    "documents loaded: "
                                        \o ToString(Len(documents'))>>
    /\ pc' = "done"
    /\ UNCHANGED exc
    /\ UNCHANGED <<pipeline, api_key, data_dir, present, settings, cfg_idx,
                   base_nodes, nodes, index, response, all_results, img_idx,
                   all_documents, llm_configured, query_idx>>
    /\ UNCHANGED reader_quiet_vars

(***************************************************************************)
(* The two main scripts as one specification: one of them runs (or one of  *)
(* the demos that main leaves out).                                        *)
(***************************************************************************)
InitPipeline ==
    /\ InitBench \/ InitDemo \/ InitDemoAlone
    /\ ocr_result = NoneResult
    /\ file_path = ""
    /\ extra_info = NoExtra
    /\ ret = NoRet
    /\ again = NoRet
    /\ file = PathList(<<>>)
    /\ files = <<>>
    /\ file_idx = 0
    /\ documents = <<>>
    /\ ocr_calls = <<>>
    /\ exc = NoExc
    /\ returned = NotReturned
    /\ DirIdle

NextPipeline ==
    \/ Import
    \/ BenchMain
    \/ Split
    \/ BuildWindow
    \/ BuildIndex
    \/ Query
    \/ Report
    \/ BasicOcr
    \/ Integration
    \/ DemoIndex
    \/ DemoQuery
    \/ Final
    \/ DemoBatchOcr
    \/ DemoDirectoryLoading

SpecPipeline == InitPipeline /\ [][NextPipeline]_vars

(***************************************************************************)
(* What the claims read off a state.                                       *)
(***************************************************************************)
\* the call has run
Ran == pc \in {"returned", "raised"}

\* load_data_from_dir was called (and not load_data)
DirCall == dir_path # ""

\* the keys _process_ocr_result computes
ComputedKeys ==
    {"image_path", "file_name", "ocr_model", "language", "num_text_blocks",
     "avg_confidence", "min_confidence", "max_confidence", "used_gpu"}

\* the caller's extra_info replaces no computed key
NoOverride == (DOMAIN extra_info) \cap ComputedKeys = {}

\* the first top-level element of the raw result, when there is one
FirstOf(result) ==
    IF result.t = "list" /\ result.items # <<>> THEN result.items[1] ELSE NoneItem

\* the shape the first top-level element has, by the policy of the spec
ExpectedShape(result) ==
    LET first == FirstOf(result)
    IN  IF first.t = "map" /\ "rec_texts" \in first.keys THEN "batch"
        ELSE IF first.t = "str" THEN "flat"
        ELSE IF first.t = "list" THEN "nested"
        ELSE "none"

\* the texts and confidences of the detections the call kept
KeptTexts == [i \in 1..Len(ret.detailed_blocks) |-> ret.detailed_blocks[i].text]
KeptConfs ==
    [i \in 1..Len(ret.detailed_blocks) |-> ret.detailed_blocks[i].confidence]

\* the entries of the batch shape: text i with score i, 1.0 when there is none
BatchEntries(item) ==
    [i \in 1..Len(item.rec_texts) |->
        [text |-> item.rec_texts[i],
         conf |-> IF i <= Len(item.rec_scores) THEN item.rec_scores[i]
                  ELSE NumConf(1000),
         bbox |-> IF i <= Len(item.dt_polys) THEN item.dt_polys[i] ELSE "None",
         index |-> i - 1]]

\* an entry of the nested shape is [polygon, (text, confidence, ...)]
WellFormedLine(line) ==
    line.t = "list" /\ line.len >= 2 /\ line.pair_is_seq /\ line.pair_len >= 2

\* an entry of the nested shape has two fields, and its inner pair is not a
\* list/tuple of at least two fields
MalformedPair(line) ==
    line.t = "list" /\ line.len >= 2 /\ ~(line.pair_is_seq /\ line.pair_len >= 2)

\* the well-formed entries of a page, in order
NestedEntries(lines) ==
    LET idx == SelectSeq([i \in 1..Len(lines) |-> i],
                         LAMBDA i : WellFormedLine(lines[i]))
    IN  [j \in 1..Len(idx) |->
            [text |-> lines[idx[j]].text, conf |-> lines[idx[j]].conf,
             bbox |-> lines[idx[j]].box, index |-> idx[j] - 1]]

\* the entries the first element offers, for the batch and nested shapes
Entries ==
    IF ExpectedShape(ocr_result) = "batch"
    THEN BatchEntries(FirstOf(ocr_result))
    ELSE IF ExpectedShape(ocr_result) = "nested"
    THEN NestedEntries(FirstOf(ocr_result).lines)
    ELSE <<>>

\* the entries whose confidence float() accepts
CoercibleEntries == SelectSeq(Entries, LAMBDA e : e.conf.k = "num")

TextsOf(entries) == [i \in 1..Len(entries) |-> entries[i].text]
ConfsOf(entries) == [i \in 1..Len(entries) |-> entries[i].conf.n]

\* the positions of the line breaks of s
LineBreaks(s) == {i \in 1..Len(s) : SubSeq(s, i, i) = "\n"}

\* the j-th smallest element of a set of numbers
Nth(S, j) == CHOOSE x \in S : Cardinality({y \in S : y < x}) = j - 1

\* s.split("\n"): the text between one line break (or the start) and the
\* next (or the end)
SplitLines(s) ==
    [j \in 1..(Cardinality(LineBreaks(s)) + 1) |->
        SubSeq(s, Nth(LineBreaks(s) \cup {0}, j) + 1,
                  Nth(LineBreaks(s) \cup {Len(s) + 1}, j) - 1)]

\* sub occurs in s
Contains(s, sub) ==
    \E i \in 1..(Len(s) - Len(sub) + 1) : SubSeq(s, i, i + Len(sub) - 1) = sub

(***************************************************************************)
(* The claims about _process_ocr_result.                                   *)
(***************************************************************************)
\* C1: the branch taken is decided by the first top-level element alone, in
\* the order batch (a mapping with 'rec_texts'), flat (a str), nested (a
\* list); when none matches (None, [], a non-list, [None], a mapping without
\* 'rec_texts', any other first element) the call returns normally with zero
\* detections and never raises.
C1_ShapeDispatch ==
    Ran =>
        /\ (IF ret.branch = "no_rec_texts" THEN "none" ELSE ret.branch)
                = ExpectedShape(ocr_result)
        /\ ExpectedShape(ocr_result) = "none" =>
            /\ pc = "returned"
            /\ ret.exc = ""
            /\ ret.text_blocks = <<>>
            /\ ret.confidences = <<>>
            /\ ret.detailed_blocks = <<>>
            /\ ret.text = ""
            /\ NoOverride => ret.metadata.num_text_blocks = 0

\* C1 witness: a two-page result whose first page is None and whose second
\* page is a text was processed, and gave zero detections
C1_Witness ==
    /\ pc = "returned"
    /\ ocr_result = ListResult(<<NoneItem, StrItem("B")>>)
    /\ ret.branch = "none"
    /\ ret.text_blocks = <<>>

\* C2 (as claimed): a confidence that float() rejects skips only its own
\* detection; the call returns normally and keeps the other detections of the
\* result with their texts and confidences.
C2_BadConfidenceSkipsOneDetection ==
    (Ran /\ ExpectedShape(ocr_result) \in {"batch", "nested"}) =>
        /\ pc = "returned"
        /\ ret.text_blocks = TextsOf(CoercibleEntries)
        /\ ret.confidences = ConfsOf(CoercibleEntries)

\* C3: for the batch shape with numeric scores there is one detection per
\* element of rec_texts; detection i has text rec_texts[i], confidence
\* rec_scores[i] when that index exists and 1.0 otherwise, polygon
\* dt_polys[i] when that index exists and None otherwise.  For
\* rec_texts [A, B] with rec_scores [0.9, 0.8]: two detections, mean 0.85,
\* first line '[Block 1] (conf: 0.90): A'.
C3_BatchShape ==
    (Ran /\ ExpectedShape(ocr_result) = "batch") =>
        LET entries == BatchEntries(FirstOf(ocr_result))
        IN  /\ pc = "returned" <=> \A i \in 1..Len(entries) : entries[i].conf.k = "num"
            /\ pc = "returned" =>
                /\ Len(ret.detailed_blocks) = Len(FirstOf(ocr_result).rec_texts)
                /\ ret.text_blocks = FirstOf(ocr_result).rec_texts
                /\ ret.confidences = ConfsOf(entries)
                /\ \A i \in 1..Len(entries) :
                    /\ ret.detailed_blocks[i].text = entries[i].text
                    /\ ret.detailed_blocks[i].confidence = entries[i].conf.n
                    /\ ret.detailed_blocks[i].bbox = entries[i].bbox
                    /\ ret.detailed_blocks[i].block_index = entries[i].index
                /\ (/\ FirstOf(ocr_result).rec_texts = <<"A", "B">>
                    /\ FirstOf(ocr_result).rec_scores = <<NumConf(900), NumConf(800)>>
                    /\ NoOverride) =>
                        /\ ret.metadata.num_text_blocks = 2
                        /\ ret.metadata.avg_confidence = 8500
                        /\ SplitLines(ret.text)[1] = "[Block 1] (conf: 0.90): A"

\* C3 witness: three texts, one score and two polygons were processed: the
\* second and third detections carry confidence 1.0, the third no polygon
C3_Witness ==
    /\ pc = "returned"
    /\ ret.branch = "batch"
    /\ Len(ret.detailed_blocks) = 3
    /\ Len(FirstOf(ocr_result).rec_scores) = 1
    /\ ret.detailed_blocks[1].confidence = 900
    /\ ret.detailed_blocks[2].confidence = 1000
    /\ ret.detailed_blocks[2].bbox = "P2"
    /\ ret.detailed_blocks[3].bbox = "None"

\* the texts of a flat result
FlatTextsOf(result) ==
    LET strs == SelectSeq(result.items, LAMBDA it : it.t = "str")
    IN  [i \in 1..Len(strs) |-> strs[i].s]

\* C4 (as claimed): when the first element is a str, every element of the
\* top-level sequence becomes one detection, in order, with confidence 1.0
\* and no bounding box: k text elements give k detections (an empty text
\* too, as the batch and the nested shape keep it).
C4_FlatEveryElement ==
    (Ran /\ ExpectedShape(ocr_result) = "flat"
         /\ \A i \in 1..Len(ocr_result.items) : ocr_result.items[i].t = "str") =>
        /\ pc = "returned"
        /\ Len(ret.detailed_blocks) = Len(ocr_result.items)
        /\ ret.text_blocks = FlatTextsOf(ocr_result)

\* the warnings due for a page: one per entry with a malformed inner pair
DueWarnings(lines) ==
    LET idx == SelectSeq([i \in 1..Len(lines) |-> i],
                         LAMBDA i : MalformedPair(lines[i]))
    IN  [j \in 1..Len(idx) |-> "line " \o ToString(idx[j] - 1) \o " format"]

\* C5: in the nested shape an entry whose inner pair is not a list/tuple of
\* at least two fields is skipped with a warning and never fails the
\* document (a call raises only over a well-formed entry whose confidence
\* is no number); the well-formed entries before and after it are the
\* detections, in their original order.
C5_MalformedEntrySkipped ==
    (Ran /\ ExpectedShape(ocr_result) = "nested") =>
        LET lines == FirstOf(ocr_result).lines
            entries == NestedEntries(lines)
        IN  /\ pc = "raised" <=> \E i \in 1..Len(entries) : entries[i].conf.k # "num"
            /\ pc = "returned" =>
                /\ ret.text_blocks = TextsOf(entries)
                /\ ret.confidences = ConfsOf(entries)
                /\ KeptTexts = TextsOf(entries)
                /\ \A i \in 1..Len(entries) :
                    ret.detailed_blocks[i].block_index = entries[i].index
                /\ ret.printed = DueWarnings(lines)

\* C5 witness: a page whose second entry has a malformed inner pair, between
\* two well-formed entries, gave the two detections and one warning
C5_Witness ==
    /\ pc = "returned"
    /\ ret.branch = "nested"
    /\ Len(FirstOf(ocr_result).lines) = 3
    /\ WellFormedLine(FirstOf(ocr_result).lines[1])
    /\ MalformedPair(FirstOf(ocr_result).lines[2])
    /\ WellFormedLine(FirstOf(ocr_result).lines[3])
    /\ ret.text_blocks = <<"A", "B">>
    /\ ret.printed = <<"line 1 format">>

(***************************************************************************)
(* The claims about the metadata.                                          *)
(***************************************************************************)
\* the three confidences of the metadata are all 0.0
AllThreeZero ==
    /\ ret.metadata.avg_confidence = 0
    /\ ret.metadata.min_confidence = 0
    /\ ret.metadata.max_confidence = 0

\* the raw result offers no detection: no entry, or no non-empty text
NoDetectionDue ==
    IF ExpectedShape(ocr_result) = "flat"
    THEN \A i \in 1..Len(ocr_result.items) :
            ocr_result.items[i].t # "str" \/ ocr_result.items[i].s = ""
    ELSE Entries = <<>>

\* C7 (as claimed): the mean, minimum and maximum confidence of the metadata
\* are all 0.0 if and only if the detection list is empty; with no detection
\* the call returns metadata with num_text_blocks = 0.
C7_ZeroIffEmpty ==
    (pc = "returned" /\ NoOverride) =>
        /\ AllThreeZero <=> ret.text_blocks = <<>>
        /\ ret.text_blocks = <<>> => ret.metadata.num_text_blocks = 0

\* C7 (amended): with no detection the call does not fail and the metadata
\* has num_text_blocks = 0 and mean, minimum and maximum confidence 0.0; for
\* a non-empty detection list the three are all 0.0 exactly when every
\* confidence of the list rounds to 0.0 (at four decimals).
C7_ZeroWhenEmptyOrAllZero ==
    /\ (Ran /\ NoDetectionDue) => pc = "returned" /\ ret.text_blocks = <<>>
    /\ (pc = "returned" /\ NoOverride) =>
        /\ ret.text_blocks = <<>> =>
            /\ AllThreeZero
            /\ ret.metadata.num_text_blocks = 0
            /\ ret.metadata # NoMetadata
        /\ ret.text_blocks # <<>> =>
            (AllThreeZero <=>
                \A i \in 1..Len(ret.confidences) : 10 * ret.confidences[i] = 0)

\* C7 witness: a page of the nested shape with entries but no well-formed
\* one gave no detection, and metadata with count 0 and confidences 0.0
C7_Witness ==
    /\ pc = "returned"
    /\ ret.branch = "nested"
    /\ FirstOf(ocr_result).lines # <<>>
    /\ ret.text_blocks = <<>>
    /\ ret.metadata.num_text_blocks = 0
    /\ AllThreeZero

\* the numeric scores the first element (or, for the flat shape, nothing)
\* reports
ReportedScores ==
    LET first == FirstOf(ocr_result)
    IN  {first.rec_scores[i].n : i \in {j \in 1..Len(first.rec_scores) :
                                            first.rec_scores[j].k = "num"}}
        \cup {first.lines[i].conf.n : i \in {j \in 1..Len(first.lines) :
                                            first.lines[j].conf.k = "num"}}

\* the confidences of the detections and of the metadata lie in [0, 1]
ConfidencesInRange ==
    /\ \A i \in 1..Len(ret.confidences) :
            0 <= ret.confidences[i] /\ ret.confidences[i] <= 1000
    /\ \A i \in 1..Len(ret.detailed_blocks) :
            /\ 0 <= ret.detailed_blocks[i].confidence
            /\ ret.detailed_blocks[i].confidence <= 1000
    /\ NoOverride =>
        \A k \in {"avg_confidence", "min_confidence", "max_confidence"} :
            0 <= ret.metadata[k] /\ ret.metadata[k] <= 10000

\* C8 (as claimed): whatever scores the engine reports, every detection has a
\* confidence in [0, 1], and so have the mean, minimum and maximum of the
\* metadata.
C8_ConfidenceInUnitRange == pc = "returned" => ConfidencesInRange

\* C8 (amended): a detection's confidence is the score the engine reported
\* for it, unchanged (1.0 when it reported none); so when every reported
\* score lies in [0, 1], every detection's confidence and the mean, minimum
\* and maximum of the metadata lie in [0, 1].  A score outside [0, 1] is
\* passed through unclamped.
C8_ConfidenceInRangeOfScores ==
    pc = "returned" =>
        /\ ExpectedShape(ocr_result) \in {"batch", "nested"} =>
                ret.confidences = ConfsOf(Entries)
        /\ (\A n \in ReportedScores : 0 <= n /\ n <= 1000) => ConfidencesInRange
        /\ NoOverride /\ ret.confidences # <<>> =>
            /\ \E i \in 1..Len(ret.confidences) :
                    ret.metadata.min_confidence = 10 * ret.confidences[i]
            /\ \E i \in 1..Len(ret.confidences) :
                    ret.metadata.max_confidence = 10 * ret.confidences[i]
            /\ ret.metadata.min_confidence <= ret.metadata.avg_confidence
            /\ ret.metadata.avg_confidence <= ret.metadata.max_confidence

\* C8 witness: three detections with the scores 0.125, 0.9 and 0.9 gave the
\* mean 0.6417, the minimum 0.125 and the maximum 0.9
C8_Witness ==
    /\ pc = "returned"
    /\ ret.confidences = <<125, 900, 900>>
    /\ ret.metadata.avg_confidence = 6417
    /\ ret.metadata.min_confidence = 1250
    /\ ret.metadata.max_confidence = 9000

\* C13: the caller's extra_info is merged into the metadata after the
\* computed fields are set: the metadata holds the computed keys and the
\* caller's keys, every caller key (also one that collides with a computed
\* key, such as num_text_blocks or image_path) has the caller's value, and
\* every computed key the caller did not supply keeps its computed value.
C13_ExtraInfoOverrides ==
    pc = "returned" =>
        /\ DOMAIN ret.metadata = ComputedKeys \cup DOMAIN extra_info
        /\ \A k \in DOMAIN extra_info : ret.metadata[k] = extra_info[k]
        /\ \A k \in ComputedKeys \ DOMAIN extra_info :
            ret.metadata[k] =
                ComputedMetadata(file_path, ret.text_blocks, ret.confidences)[k]
        /\ "num_text_blocks" \notin DOMAIN extra_info =>
            ret.metadata.num_text_blocks = Len(ret.text_blocks)

\* C13 witness: the caller supplied num_text_blocks = 99 and image_path, two
\* detections were found: the metadata says 99 and the caller's path, and
\* keeps the computed mean confidence 1.0 and the caller's own key
C13_Witness ==
    /\ pc = "returned"
    /\ ret.text_blocks = <<"A", "B">>
    /\ "num_text_blocks" \in DOMAIN extra_info
    /\ extra_info.num_text_blocks = 99
    /\ ret.metadata.num_text_blocks = 99
    /\ ret.metadata.image_path = "x.png"
    /\ ret.metadata.avg_confidence = 10000
    /\ ret.metadata.source = "scanner"

(***************************************************************************)
(* The claims about _format_text_blocks.                                   *)
(***************************************************************************)
\* the lines a detection list is to be formatted as: n detail lines, the
\* blank line and the title line of the separator, the n texts
ExpectedLines(text_blocks, confidences) ==
    [i \in 1..Len(text_blocks) |->
        "[Block " \o ToString(i) \o "] (conf: " \o Fmt2(confidences[i])
            \o "): " \o text_blocks[i]]
    \o <<"", "=== plain text content ===">>
    \o text_blocks

\* C9 (as claimed): the formatted text always contains both sections and the
\* separator line between them, also for the empty detection list.
C9_SectionsAlwaysPresent ==
    pc = "returned" =>
        /\ Contains(ret.text, "\n\n=== plain text content ===\n")
        /\ Len(SplitLines(ret.text)) >= 3

\* C9 (amended): for every non-empty detection list the formatted text holds
\* the per-detection section, the separator line and the plain-text section;
\* for the empty detection list the formatted text is the empty string,
\* without sections and without separator.
C9_SectionsPresentUnlessEmpty ==
    pc = "returned" =>
        /\ ret.text_blocks # <<>> =>
            /\ Contains(ret.text, "\n\n=== plain text content ===\n")
            /\ Len(SplitLines(ret.text)) = 2 * Len(ret.text_blocks) + 2
            /\ SplitLines(ret.text)[Len(ret.text_blocks) + 1] = ""
            /\ SplitLines(ret.text)[Len(ret.text_blocks) + 2]
                    = "=== plain text content ==="
        /\ ret.text_blocks = <<>> =>
            /\ ret.text = ""
            /\ ~Contains(ret.text, "=== plain text content ===")

\* C9 witness: one detection was formatted into four lines
C9_Witness ==
    /\ pc = "returned"
    /\ Len(ret.text_blocks) = 1
    /\ Len(SplitLines(ret.text)) = 4
    /\ SplitLines(ret.text)[3] = "=== plain text content ==="

\* C10: a non-empty detection list of n items is formatted as n detail lines,
\* line i being '[Block i] (conf: c): text' with c the i-th confidence
\* rounded to two decimals, then the separator, then the n texts, one per
\* line, in the same order.
C10_FormatLines ==
    (pc = "returned" /\ ret.text_blocks # <<>>) =>
        SplitLines(ret.text) = ExpectedLines(ret.text_blocks, ret.confidences)

\* C10 witness: the detections (A, 0.125), (B, 0.9), (A, 1.5) were formatted;
\* 0.125 is written 0.12
C10_Witness ==
    /\ pc = "returned"
    /\ ret.text_blocks = <<"A", "B", "A">>
    /\ ret.confidences = <<125, 900, 1500>>
    /\ SplitLines(ret.text) =
        <<"[Block 1] (conf: 0.12): A", "[Block 2] (conf: 0.90): B",
          "[Block 3] (conf: 1.50): A", "", "=== plain text content ===",
          "A", "B", "A">>

\* the position of the first occurrence of sub in s, 0 when there is none
FirstIndexOf(s, sub) ==
    LET at == {i \in 1..(Len(s) - Len(sub) + 1) :
                    SubSeq(s, i, i + Len(sub) - 1) = sub}
    IN  IF at = {} THEN 0 ELSE Nth(at, 1)

\* the parse of a formatted text: the separator is located, and what follows
\* it is split into lines
ParsePlainSection(text) ==
    LET sep == "\n\n=== plain text content ===\n"
        i == FirstIndexOf(text, sep)
    IN  IF i = 0 THEN [found |-> FALSE, lines |-> <<>>]
        ELSE [found |-> TRUE,
              lines |-> SplitLines(SubSeq(text, i + Len(sep), Len(text)))]

\* C11 (as claimed): for every detection list, locating the plain-text
\* section after the separator of the formatted text and splitting it into
\* lines returns exactly the original detection texts in their original order.
C11_RoundTripEveryList ==
    pc = "returned" =>
        /\ ParsePlainSection(ret.text).found
        /\ ParsePlainSection(ret.text).lines = ret.text_blocks

\* C11 (amended): for every non-empty detection list (of texts that are
\* single lines), locating the plain-text section after the separator of the
\* formatted text and splitting it into lines returns exactly the original
\* detection texts in their original order; the formatted text of the empty
\* detection list is the empty string, which has no separator and no
\* plain-text section to parse.
C11_RoundTripNonEmptyList ==
    pc = "returned" =>
        /\ ret.text_blocks # <<>> =>
            /\ ParsePlainSection(ret.text).found
            /\ ParsePlainSection(ret.text).lines = ret.text_blocks
        /\ ret.text_blocks = <<>> => ~ParsePlainSection(ret.text).found

\* C11 witness: the detections B, A, B were formatted, and the plain-text
\* section of the text parses back to B, A, B
C11_Witness ==
    /\ pc = "returned"
    /\ ret.text_blocks = <<"B", "A", "B">>
    /\ ParsePlainSection(ret.text) = [found |-> TRUE, lines |-> <<"B", "A", "B">>]

(***************************************************************************)
(* The claim about the three shapes.                                       *)
(***************************************************************************)
\* the ordered (text, confidence) list a raw result presents: the entries of
\* the batch and nested shapes, the texts of the flat shape with 1.0
PresentedEntries ==
    IF ExpectedShape(ocr_result) = "flat"
    THEN [i \in 1..Len(ocr_result.items) |->
            [text |-> ocr_result.items[i].s, conf |-> NumConf(1000)]]
    ELSE [i \in 1..Len(Entries) |->
            [text |-> Entries[i].text, conf |-> Entries[i].conf]]

\* the raw result presents a list of texts with numeric confidences, and
\* nothing else: every flat element is a str, every nested entry well-formed
PresentsDetections ==
    /\ ExpectedShape(ocr_result) \in {"batch", "flat", "nested"}
    /\ Len(ocr_result.items) = 1 \/ ExpectedShape(ocr_result) = "flat"
    /\ ExpectedShape(ocr_result) = "flat" =>
        \A i \in 1..Len(ocr_result.items) : ocr_result.items[i].t = "str"
    /\ ExpectedShape(ocr_result) = "nested" =>
        \A i \in 1..Len(FirstOf(ocr_result).lines) :
            WellFormedLine(FirstOf(ocr_result).lines[i])
    /\ \A i \in 1..Len(PresentedEntries) : PresentedEntries[i].conf.k = "num"

\* the same list presented in each of the three shapes
AsBatch(entries) ==
    ListResult(<<[t |-> "map", s |-> "", keys |-> {"rec_texts", "rec_scores"},
                  rec_texts |-> [i \in 1..Len(entries) |-> entries[i].text],
                  rec_scores |-> [i \in 1..Len(entries) |-> entries[i].conf],
                  dt_polys |-> <<>>, lines |-> <<>>]>>)

AsFlat(entries) ==
    ListResult([i \in 1..Len(entries) |->
        [t |-> "str", s |-> entries[i].text, keys |-> {}, rec_texts |-> <<>>,
         rec_scores |-> <<>>, dt_polys |-> <<>>, lines |-> <<>>]])

AsNested(entries) ==
    ListResult(<<[t |-> "list", s |-> "", keys |-> {}, rec_texts |-> <<>>,
                  rec_scores |-> <<>>, dt_polys |-> <<>>,
                  lines |-> [i \in 1..Len(entries) |->
                      [t |-> "list", len |-> 2, box |-> "Q",
                       pair_is_seq |-> TRUE, pair_len |-> 2,
                       text |-> entries[i].text, conf |-> entries[i].conf]]]>>)

\* C12 (as claimed): when the same ordered list of texts (with the same
\* confidences) is presented in the batch shape, the flat shape and the
\* nested shape, the three calls return the same number of detections and
\* the same texts in the same order (the call of the state is one of them).
C12_ShapeInvariance ==
    (Ran /\ PresentsDetections) =>
        LET b == ProcessOcrResult(AsBatch(PresentedEntries), file_path, extra_info)
            f == ProcessOcrResult(AsFlat(PresentedEntries), file_path, extra_info)
            n == ProcessOcrResult(AsNested(PresentedEntries), file_path, extra_info)
        IN  /\ pc = "returned"
            /\ b.exc = "" /\ f.exc = "" /\ n.exc = ""
            /\ Len(b.detailed_blocks) = Len(ret.detailed_blocks)
            /\ Len(f.detailed_blocks) = Len(ret.detailed_blocks)
            /\ Len(n.detailed_blocks) = Len(ret.detailed_blocks)
            /\ b.text_blocks = ret.text_blocks
            /\ f.text_blocks = ret.text_blocks
            /\ n.text_blocks = ret.text_blocks

(***************************************************************************)
(* The claims about load_data.                                             *)
(***************************************************************************)
\* the lower-cased suffix of a path is one of the supported raster formats
HasRasterSuffix(path) ==
    Lower(PathSuffix(path))
        \in {".png", ".jpg", ".jpeg", ".bmp", ".tiff", ".tif", ".webp"}

\* the path passed the existence check and the extension check
PassesChecks(path) == path \in ExistingPaths /\ HasRasterSuffix(path)

\* C6: in load_data the engine is invoked for a path only after the path
\* passed the existence check and the extension check; a missing path raises
\* FileNotFoundError, a path whose lower-cased suffix is outside the
\* supported set raises ValueError, both with no engine invocation for that
\* path.
C6_EngineAfterChecks ==
    /\ Len(ocr_calls) <= Len(files)
    /\ \A i \in 1..Len(ocr_calls) :
        ocr_calls[i] = files[i] /\ PassesChecks(files[i])
    /\ pc \in {"ocr", "process"} => PassesChecks(file_path)
    /\ pc = "ocr" => Len(ocr_calls) = file_idx - 1
    /\ pc = "check_format" => file_path \in ExistingPaths
    /\ \A i \in 1..Len(files) : i < file_idx => PassesChecks(files[i])
    /\ (pc = "load_raised" /\ exc.at \in {"check_exists", "check_format"}) =>
        /\ Len(ocr_calls) = file_idx - 1
        /\ ~PassesChecks(files[file_idx])
        /\ exc.type = (IF files[file_idx] \in ExistingPaths
                       THEN "ValueError" ELSE "FileNotFoundError")
        /\ exc.at = (IF files[file_idx] \in ExistingPaths
                     THEN "check_format" ELSE "check_exists")
    /\ pc = "load_returned" =>
        /\ \A i \in 1..Len(files) : PassesChecks(files[i])
        /\ ocr_calls = files
        /\ Len(documents) = Len(files)

\* C6 witness: the list [img/a.png, anim.gif] was given: the engine was
\* invoked for the PNG, and the GIF raised ValueError without an invocation
C6_Witness ==
    /\ pc = "load_raised"
    /\ files = <<"img/a.png", "anim.gif">>
    /\ exc = [type |-> "ValueError", at |-> "check_format"]
    /\ ocr_calls = <<"img/a.png">>
    /\ Len(documents) = 1

\* the position of the first path of `files` that is missing or has an
\* unsupported suffix, 0 when there is none
FirstBadPath ==
    IF \A i \in 1..Len(files) : PassesChecks(files[i]) THEN 0
    ELSE CHOOSE i \in 1..Len(files) :
            /\ ~PassesChecks(files[i])
            /\ \A j \in 1..(i - 1) : PassesChecks(files[j])

\* C15: when load_data is given a list of paths, the first path that is
\* missing or has an unsupported suffix aborts the whole batch: the loop never
\* goes past that path, the error is raised at that path, the caller
\* receives no documents (also not those built for the earlier paths), and
\* no later path is checked or passed to the engine.  The caller receives
\* documents only when every path passed its checks.
C15_FirstBadPathAborts ==
    (pc # "load_data" /\ ~DirCall /\ ~file.single) =>
        /\ FirstBadPath # 0 =>
            /\ file_idx <= FirstBadPath
            /\ Len(ocr_calls) < FirstBadPath
            /\ Len(documents) < FirstBadPath
            /\ pc # "load_returned"
            /\ returned = [has |-> FALSE, docs |-> <<>>]
        /\ (pc = "load_raised" /\ exc.at \in {"check_exists", "check_format"}) =>
            /\ file_idx = FirstBadPath
            /\ file_path = files[FirstBadPath]
            /\ exc.type = (IF file_path \in ExistingPaths THEN "ValueError"
                           ELSE "FileNotFoundError")
            /\ ocr_calls = SubSeq(files, 1, FirstBadPath - 1)
            /\ Len(documents) = FirstBadPath - 1
            /\ returned = [has |-> FALSE, docs |-> <<>>]
        /\ returned.has => (pc = "load_returned" /\ FirstBadPath = 0)
        /\ (pc = "load_returned" /\ FirstBadPath = 0) =>
                returned = [has |-> TRUE, docs |-> documents]

\* C15 witness: the list [img/a.png, missing.png, /data/b.PNG] was given: a
\* document was built for the first path, the second raised
\* FileNotFoundError, the caller received nothing, and the third path was
\* neither checked nor passed to the engine
C15_Witness ==
    /\ pc = "load_raised"
    /\ files = <<"img/a.png", "missing.png", "/data/b.PNG">>
    /\ exc = [type |-> "FileNotFoundError", at |-> "check_exists"]
    /\ Len(documents) = 1
    /\ returned = [has |-> FALSE, docs |-> <<>>]
    /\ ocr_calls = <<"img/a.png">>
    /\ file_idx = 2

(***************************************************************************)
(* The claims about load_data_from_dir.                                    *)
(***************************************************************************)
\* the directory a path lies in: what precedes its last "/"
PathParent(p) ==
    IF LastIndexOf(p, "/", Len(p)) = 0 THEN ""
    ELSE SubSeq(p, 1, LastIndexOf(p, "/", Len(p)) - 1)

\* the path lies in directory d or in a directory below it
IsUnder(p, d) == Len(p) > Len(d) + 1 /\ SubSeq(p, 1, Len(d) + 1) = d \o "/"

\* the files a call of load_data_from_dir is to process: the files with a
\* raster suffix in the directory, or anywhere below it when recursive
ExpectedImages ==
    {f \in ExistingPaths :
        /\ HasRasterSuffix(f)
        /\ IF recursive THEN IsUnder(f, dir_path) ELSE PathParent(f) = dir_path}

SeqToSet(seq) == {seq[i] : i \in 1..Len(seq)}

\* C14: load_data_from_dir enumerates the files of the directory whose
\* lower-cased suffix is supported (its direct children when recursive is
\* false, all its descendants when true), each once; it hands exactly these
\* to load_data and to the engine in enumeration order, and when it returns
\* it returns exactly one document per enumerated file, in that order; when
\* no file matches it returns the empty list, without raising and without
\* invoking the engine.  No enumerated file fails a check of load_data.
C14_DirectoryLoad ==
    (DirCall /\ dir_path \in Directories /\ pc # "load_data_from_dir") =>
        /\ SeqToSet(image_files) = ExpectedImages
        /\ Len(image_files) = Cardinality(ExpectedImages)
        /\ ExpectedImages = {} =>
            /\ pc = "load_returned"
            /\ returned = [has |-> TRUE, docs |-> <<>>]
            /\ ocr_calls = <<>>
            /\ exc = [type |-> "", at |-> ""]
        /\ pc # "load_data" => files = image_files
        /\ Len(ocr_calls) <= Len(image_files)
        /\ \A i \in 1..Len(ocr_calls) : ocr_calls[i] = image_files[i]
        /\ pc = "load_raised" => exc.at = "process"
        /\ pc = "load_returned" =>
            /\ returned.has
            /\ Len(returned.docs) = Len(image_files)
            /\ ocr_calls = image_files
            /\ \A i \in 1..Len(image_files) :
                /\ returned.docs[i].metadata.file_name = PathName(image_files[i])
                /\ "image_path" \notin DOMAIN extra_info =>
                    returned.docs[i].metadata.image_path
                        = "/work/" \o image_files[i]

\* C14 witness: the directory imgs was loaded recursively: four images were
\* enumerated (not the directory d.png, not notes.txt, not e.gif), and four
\* documents returned in the order of the enumeration
C14_Witness ==
    /\ pc = "load_returned"
    /\ dir_path = "imgs"
    /\ recursive
    /\ image_files = <<"imgs/b.JPG", "imgs/a.png", "imgs/d.png/h.png",
                       "imgs/sub/c.tif">>
    /\ Len(returned.docs) = 4
    /\ returned.docs[3].metadata.file_name = "h.png"
    /\ ocr_calls = image_files

(***************************************************************************)
(* The claims about the two main scripts.                                  *)
(***************************************************************************)
\* the steps of an evaluation
EvaluationOps == {"split", "window", "index", "query"}

\* the events of the evaluation of configuration i, in order
EventsOf(i) ==
    SelectSeq(events, LAMBDA e : e.cfg = i /\ e.op \in EvaluationOps)

\* the evaluations follow one another: no event of a configuration comes
\* after an event of a later one
OneAfterAnother ==
    \A j, k \in 1..Len(events) :
        (j < k /\ events[j].cfg > 0 /\ events[k].cfg > 0) =>
            events[j].cfg <= events[k].cfg

\* the results list holds one entry per evaluated configuration, in order,
\* and at the report one per configuration
OneResultPerConfiguration ==
    /\ cfg_idx > 0 => Len(all_results) = cfg_idx - 1
    /\ \A i \in 1..Len(all_results) :
        all_results[i].config_name = Configurations[i].name
    /\ pc = "report" => Len(all_results) = Len(Configurations)

\* the evaluation of configuration i split the documents once, built a new
\* index from exactly the chunks of that split, and issued one query to it
SplitIndexQuery(i) ==
    LET ev == EventsOf(i)
    IN  /\ Len(ev) = 3
        /\ ev[1].op = "split" /\ ev[2].op = "index" /\ ev[3].op = "query"
        /\ ev[2].arg = ev[1].arg
        /\ ev[3].arg = [id |-> i, nodes |-> ev[1].arg]
        /\ all_results[i].num_chunks = Len(ev[1].arg)

\* the evaluation of the sentence-window configuration i split the
\* documents once, built the window nodes from the chunks of that split,
\* built a new index from exactly the window nodes, and issued one query
SplitWindowIndexQuery(i) ==
    LET ev == EventsOf(i)
    IN  /\ Len(ev) = 4
        /\ ev[1].op = "split" /\ ev[2].op = "window"
        /\ ev[3].op = "index" /\ ev[4].op = "query"
        /\ \A k \in 1..Len(ev[1].arg) : ev[1].arg[k].input = "documents"
        /\ \A k \in 1..Len(ev[2].arg) : ev[2].arg[k].input = "base_nodes"
        /\ ev[3].arg = ev[2].arg
        /\ ev[4].arg = [id |-> i, nodes |-> ev[2].arg]
        /\ all_results[i].num_chunks = Len(ev[2].arg)

\* C16 (as claimed): in the chunking benchmark each configuration is
\* evaluated to completion before the next starts; each evaluation performs,
\* in this order, exactly one split of the documents, the construction of a
\* new index from exactly the chunk sequence of that split, and exactly one
\* issue of the query; the results list holds one entry per configuration in
\* configuration order.
C16_OneSplitOneIndexOneQuery ==
    pipeline = "chunking" =>
        /\ OneAfterAnother
        /\ OneResultPerConfiguration
        /\ \A i \in 1..Len(all_results) : SplitIndexQuery(i)

\* C16 (amended): in the chunking benchmark each configuration is evaluated
\* to completion before the next starts; the evaluation of a sentence or
\* token configuration performs, in this order, exactly one split of the
\* documents, the construction of a new index from exactly the chunk
\* sequence of that split, and exactly one issue of the query; the
\* evaluation of a sentence-window configuration splits the documents once
\* (with a fixed base splitter), builds the window nodes from those chunks,
\* constructs a new index from exactly the window nodes and issues the query
\* once; the results list holds one entry per evaluated configuration in
\* configuration order.
C16_OneSplitOrWindowOneIndexOneQuery ==
    pipeline = "chunking" =>
        /\ OneAfterAnother
        /\ OneResultPerConfiguration
        /\ \A i \in 1..Len(all_results) :
            IF Configurations[i].kind = "window"
            THEN SplitWindowIndexQuery(i)
            ELSE SplitIndexQuery(i)

\* C16 witness: the report is due: every configuration was evaluated, the
\* last of them a sentence-window configuration of three window nodes built
\* from one base chunk
C16_Witness ==
    /\ pipeline = "chunking"
    /\ pc = "report"
    /\ Len(all_results) = Len(Configurations)
    /\ Configurations[Len(all_results)].kind = "window"
    /\ Len(base_nodes) = 1
    /\ all_results[Len(all_results)].num_chunks = 3
    /\ Len(EventsOf(1)) = 3

\* C17: the avg_similarity of a result is the arithmetic mean of the scores
\* of the source nodes of its query (in six-thousandths: the mean times the
\* number of scores is six times their sum), and 0, with no error, when the
\* query returned no source node: that evaluation too ends with a result,
\* not with an error; for the results of evaluate_splitter and of
\* evaluate_sentence_window_splitter alike.
C17_AvgSimilarityIsMean ==
    (pipeline = "chunking" /\ all_results # <<>>) =>
        LET last == all_results[Len(all_results)]
            scores == response.source_nodes
        IN  /\ last.num_sources = Len(scores)
            /\ last.avg_similarity * Len(scores) = 6 * SumSeq(scores)
            /\ scores = <<>> => last.avg_similarity = 0
            /\ Len(all_results) = cfg_idx - 1

\* C17 witness: evaluate_sentence_window_splitter gave a result for the
\* scores 0.5 and 0.25 (mean 0.375), after evaluate_splitter gave one for a
\* query without source nodes (0)
C17_Witness ==
    /\ pipeline = "chunking"
    /\ Len(all_results) = Len(Configurations)
    /\ Configurations[Len(all_results)].kind = "window"
    /\ response.source_nodes = <<500, 250>>
    /\ all_results[Len(all_results)].avg_similarity = 2250
    /\ all_results[1].num_sources = 0
    /\ all_results[1].avg_similarity = 0

\* the message is among what was printed
Printed(msg) == \E i \in 1..Len(log) : log[i] = msg

\* the operation is among the events
Happened(op) == \E i \in 1..Len(events) : events[i].op = op

\* C18 (as claimed): an exception of the query call is caught for that
\* query and printed, and does not abort the enclosing loop: in both scripts
\* no exception of a query leaves the script, and a script in which a query
\* failed still reaches its closing output.
C18_QueryFailureCaught ==
    /\ ~(pc = "crashed" /\ exc.at = "query")
    /\ (pipeline = "ocr" /\ pc = "done" /\ Printed("error: query 1 failed")) =>
            Printed("demo finished")

\* the pipeline steps
StepOps == {"ocr_load", "load_documents", "split", "window", "index", "query"}

\* C19: when the API key is not set, no query is ever issued and no
\* exception leaves the script; the chunking script prints the error and
\* ends before it loads any document (and before any split, index or
\* query); the ocr script still runs OCR on every test image that exists
\* and, when that gave a document, prints the warning, still attempts the
\* index building (after writing only Settings.text_splitter), and issues
\* no query.
C19_NoKeyNoQueryNoCrash ==
    ~api_key =>
        /\ ~Happened("query")
        /\ pc # "crashed"
        /\ exc = [type |-> "", at |-> ""]
        /\ pipeline = "chunking" =>
            /\ \A i \in 1..Len(events) : events[i].op \notin StepOps
            /\ documents = <<>>
            /\ all_results = <<>>
            /\ pc \notin {"import", "main"} =>
                (pc = "done" /\ log = <<"error: DASHSCOPE_API_KEY is not set">>)
        /\ (pipeline = "ocr" /\ pc \notin {"basic_ocr"}) =>
            /\ Len(all_documents) = Cardinality(present)
            /\ \A img \in present :
                \E i \in 1..Len(events) :
                    events[i].op = "ocr_load" /\ events[i].arg = img
            /\ Len(ocr_calls) = Cardinality(present)
            /\ \A img \in present :
                \E i \in 1..Len(ocr_calls) : ocr_calls[i] = img
        /\ (pipeline = "ocr" /\ pc \in {"final", "done"}
                /\ all_documents # <<>>) =>
            /\ ~llm_configured
            /\ Printed("warning: DASHSCOPE_API_KEY is not set")
            /\ Happened("index")
            /\ settings.llm = "unset"
            /\ settings.embed_model = "unset"

\* C19 witness: the ocr script ended without the API key: two images were
\* read, the warning was printed, the index was built, no query was issued
C19_Witness ==
    /\ ~api_key
    /\ pipeline = "ocr"
    /\ pc = "done"
    /\ Len(all_documents) = 2
    /\ Printed("warning: DASHSCOPE_API_KEY is not set")
    /\ Printed("index built")
    /\ index.nodes = all_documents
    /\ ~Happened("query")

\* C20 (as claimed): Settings.llm, Settings.embed_model and
\* Settings.text_splitter are written only during an initialization that is
\* complete before any pipeline step (OCR load, document load, split, index
\* build, query) runs: no write of Settings follows a pipeline step, in
\* either script.
C20_SettingsWrittenBeforeSteps ==
    \A j, k \in 1..Len(events) :
        (j < k /\ events[j].op \in StepOps) => events[k].op # "set"

(***************************************************************************)
(* The claims about repeated calls and about the lists of one call.        *)
(***************************************************************************)
\* the second call has run
RanAgain == pc \in {"returned_again", "raised_again"}

\* C21: a second call on the same raw result, file path and extra_info (on
\* the same reader) gives what the first gave: the same text and the same
\* metadata (and the same lists, the same warnings, the same exception when
\* the first raised); and no call changes the raw result, the file path or
\* the caller's extra_info.  The second call runs on what the first left
\* behind: the reader after a call that ended with the lists of ret, and the
\* caller's extra_info after the update of the first call; it repeats the
\* first because every call makes its lists anew and the update writes only
\* the fresh metadata.
C21_SecondCallSameOutput ==
    /\ [](RanAgain =>
            /\ again.text = ret.text
            /\ again.metadata = ret.metadata
            /\ again = ret
            /\ (pc = "returned_again") = (ret.exc = ""))
    /\ [][/\ ocr_result' = ocr_result
          /\ extra_info' = extra_info
          /\ file_path' = file_path]_vars

\* C21 witness: both calls returned for a nested page of one detection and
\* an extra_info that overrides computed keys
C21_Witness ==
    /\ pc = "returned_again"
    /\ ret.branch = "nested"
    /\ Len(again.text_blocks) = 1
    /\ again.text # ""
    /\ "num_text_blocks" \in DOMAIN extra_info
    /\ again.metadata.num_text_blocks = 99
    /\ again.metadata.source = "scanner"

\* s starts with prefix
StartsWith(s, prefix) ==
    Len(s) >= Len(prefix) /\ SubSeq(s, 1, Len(prefix)) = prefix

\* the lines of a text that are block lines ('[Block ...'), in order
BlockLines(text) ==
    IF text = "" THEN <<>>
    ELSE SelectSeq(SplitLines(text), LAMBDA l : StartsWith(l, "[Block "))

\* C22: whenever the call returns, the text list and the confidence list it
\* formatted have the same length; num_text_blocks (when extra_info
\* overrides no computed key) is the number of '[Block i]' lines of the
\* text, which is the number of detections kept; and the j-th of those
\* lines carries the number j and the text of the j-th kept detection, so
\* that a skipped entry of the nested shape leaves no gap in the numbers
\* (while block_index keeps the position in the page).
C22_ListsAlignedBlocksContiguous ==
    pc = "returned" =>
        LET bl == BlockLines(ret.text)
        IN  /\ Len(ret.text_blocks) = Len(ret.confidences)
            /\ Len(bl) = Len(ret.detailed_blocks)
            /\ Len(bl) = Len(ret.text_blocks)
            /\ NoOverride => ret.metadata.num_text_blocks = Len(bl)
            /\ \A j \in 1..Len(bl) :
                /\ StartsWith(bl[j], "[Block " \o ToString(j) \o "] (conf: ")
                /\ bl[j] = "[Block " \o ToString(j) \o "] (conf: "
                        \o Fmt2(ret.detailed_blocks[j].confidence) \o "): "
                        \o ret.detailed_blocks[j].text

\* C22 witness: a nested page whose second entry is malformed: the third
\* entry is block 2 of the text, with block_index 2
C22_Witness ==
    /\ pc = "returned"
    /\ ret.branch = "nested"
    /\ Len(ocr_result.items[1].lines) = 3
    /\ ret.printed = <<"line 1 format">>
    /\ ret.metadata.num_text_blocks = 2
    /\ ret.detailed_blocks[2].block_index = 2
    /\ BlockLines(ret.text) =
        <<"[Block 1] (conf: 0.90): A", "[Block 2] (conf: 1.50): B">>

\* the number of entries the first top-level element holds: the texts of a
\* mapping, the lines of a page
EntriesOfFirst(result) ==
    IF ExpectedShape(result) = "batch" THEN Len(FirstOf(result).rec_texts)
    ELSE IF ExpectedShape(result) = "nested" THEN Len(FirstOf(result).lines)
    ELSE 0

\* the text entry idx (from 0) of the first top-level element offers
TextOfFirst(result, idx) ==
    IF ExpectedShape(result) = "batch" THEN FirstOf(result).rec_texts[idx + 1]
    ELSE FirstOf(result).lines[idx + 1].text

\* the positions (from 0) of the non-empty elements of a flat result, in order
NonEmptyPositions(result) ==
    SelectSeq([i \in 1..Len(result.items) |-> i - 1],
              LAMBDA i : result.items[i + 1].t = "str" /\ result.items[i + 1].s # "")

\* C23: for the batch and the nested shape only the first top-level element
\* contributes detections: every detection kept is an entry of the first
\* element (its block_index is a position of the first element and its text
\* the text found there), the detections are at most as many as the entries
\* of the first element, and nothing comes of a second element; for the flat
\* shape every non-empty top-level element contributes one detection, in
\* order, whatever its position.
C23_FirstElementOnlyButFlat ==
    Ran =>
        /\ ExpectedShape(ocr_result) \in {"batch", "nested"} =>
            /\ Len(ret.detailed_blocks) <= EntriesOfFirst(ocr_result)
            /\ Len(ret.text_blocks) <= EntriesOfFirst(ocr_result)
            /\ \A i \in 1..Len(ret.detailed_blocks) :
                /\ ret.detailed_blocks[i].block_index < EntriesOfFirst(ocr_result)
                /\ ret.detailed_blocks[i].text =
                        TextOfFirst(ocr_result, ret.detailed_blocks[i].block_index)
                /\ i > 1 => ret.detailed_blocks[i].block_index
                                > ret.detailed_blocks[i - 1].block_index
        /\ ExpectedShape(ocr_result) = "flat" =>
            /\ pc = "returned"
            /\ [i \in 1..Len(ret.detailed_blocks) |->
                    ret.detailed_blocks[i].block_index]
                    = NonEmptyPositions(ocr_result)
            /\ \A i \in 1..Len(ret.detailed_blocks) :
                ret.detailed_blocks[i].text =
                    ocr_result.items[ret.detailed_blocks[i].block_index + 1].s
            /\ ret.metadata # NoMetadata
            /\ NoOverride =>
                ret.metadata.num_text_blocks = Len(NonEmptyPositions(ocr_result))

\* C23 witness (batch): the first page is a mapping with the text A, the
\* second a mapping with the text B: one detection, A
C23_Witness ==
    /\ pc = "returned"
    /\ Len(ocr_result.items) = 2
    /\ ret.branch = "batch"
    /\ ocr_result.items[2].t = "map"
    /\ ocr_result.items[2].rec_texts = <<"B">>
    /\ ret.text_blocks = <<"A">>

====
